---------------------------- MODULE Spec2Model ----------------------------
(***************************************************************************)
(* Model of the 24Craft Cinema site scripts:                               *)
(*   src/script.js        navigation highlighting, nav toggle, demo form   *)
(*   src/innovation.js    the visual effects (original version)            *)
(*   src/unnamed/part_000 the visual effects (performance-optimized)       *)
(*                                                                         *)
(* Strings the code takes apart (paths, hrefs, field values) are modelled  *)
(* as sequences of tokens, so that split, trim and URL resolution are      *)
(* computed and not assumed.  Each subsystem has its own specification;    *)
(* the variables of the other subsystems stay at their idle values.        *)
(***************************************************************************)
EXTENDS Integers, Sequences, FiniteSets, TLC

VARIABLES
    \* ---- script.js: navigation highlighting
    pathname,       \* window.location.pathname, a token sequence
    links,          \* link -> [href, isActive, ariaCurrent]
    navDone,        \* TRUE once setActiveNav() has run
    \* ---- script.js: early-access form
    formEl,         \* #early-access-form is in the page
    statusEl,       \* #early-access-status is in the page
    fields,         \* field -> value (a character sequence) or Absent
    statusText,     \* earlyAccessStatus.textContent
    statusBefore,   \* the status text when the last submit event was dispatched
    formEvent,      \* the last thing that happened to the form
    submitBefore,   \* the field values when the last submit event was dispatched
    handlerTrace,   \* what the handler did for the last submit, in order
    requests,       \* the data sent over the network by the handler
    \* ---- effects scripts: one animated stat counter
    cTarget,        \* parseInt(data-count): the number to count up to
    cPhase,         \* "absent", "observed", "running" or "done"
    cStart,         \* start = performance.now() taken by animateCount
    cNow,           \* timestamp of the latest frame
    cText,          \* the number in el.textContent (NoText before the first frame)
    cPrev,          \* the number shown before the latest frame
    cCounted,       \* el has the class 'counted'
    cRaf,           \* a tick callback is requested
    cFrames,        \* frames run so far, counted up to 2
    \* ---- effects scripts: one filmstrip
    fVariant,       \* "original" (innovation.js) or "optimized"
    fReduced,       \* prefersReducedMotion
    fPhase,         \* "absent", "page" (script not run yet) or "set up"
    fScrollAmount,  \* scrollAmount
    fPaused,        \* paused
    fVisible,       \* visible (optimized script)
    fRafId,         \* rafId !== null (optimized script)
    fTicks,         \* frame callbacks of the strip that are requested
    fSeen,          \* isIntersecting of the entry the observer callback last read
    fScrollWidth,   \* strip.scrollWidth
    fClientWidth,   \* strip.clientWidth
    fLastWrite,     \* the latest write to strip.scrollLeft
    fActual,        \* the strip intersects the viewport
    fQueue,         \* isIntersecting of the observer's queued entries, oldest first
    fRecent,        \* the last two of: "show", "hide" (observer callbacks), "tick"
    \* ---- effects scripts: particle canvas
    pVariant,       \* "original" (innovation.js) or "optimized"
    pPhase,         \* "absent", "page" (script not run yet) or "running"
    pW,             \* w
    pH,             \* h
    pParticle,      \* one element of particles: [x, y, vx, vy]
    pMouseX,        \* mouseCanvasX
    pMouseY,        \* mouseCanvasY
    pVisible,       \* canvasVisible (optimized script)
    pResizeTimer,   \* resizeTimer is pending (optimized script)
    \* ---- a script's initialization on a page
    eScript,        \* the script: "script.js", "innovation.js" or "optimized"
    eDom,           \* the elements of the page the script looks up
    eReduced,       \* prefersReducedMotion
    eWide,          \* window.innerWidth > 768
    eTouch,         \* 'ontouchstart' in window
    ePhase,         \* "absent", "page", "done" or "threw"
    eActive,        \* the effects whose block acted
    eRan,            \* the effects of which a callback has run
    \* ---- script.js: navigation toggle
    tToggleEl,      \* .nav-toggle is in the page
    tNavEl,         \* #site-nav is in the page
    tOpen,          \* siteNav has the class 'is-open'
    tAria,          \* navToggle's aria-expanded attribute ("none" when not set)
    tStartOpen,     \* whether the panel was open when the clicks were last counted from 0
    tClicks,        \* toggle clicks since then
    tLast,           \* the last click: "none", "toggle", "link" or "other"
    \* ---- optimized script: the repeating timers and frame loops
    lSched,         \* loop -> its callback is scheduled (interval, timeout or frame)
    lStep,          \* loop -> step (loader), i (typewriter), elapsed (counters), else 0
    lVisible,       \* loop -> its target is shown (cursor opacity, canvasVisible, visible)
    lQuiet,         \* loop -> its callback last ran at its end or with its target hidden
    lText,           \* text.length of the typewriter
    \* ---- optimized script: one frame-throttled handler
    hWhich,         \* the handler: "progress", "glow", "parallax", "spotlight" or "blobs"
    hTicking,       \* its ticking flag
    hPending,       \* its frame callbacks that are requested
    hMouse,         \* lastCardMouseX/Y or spotMx/My: the coordinates it stored
    hScrollY,       \* window.scrollY
    hNear,          \* the card is near (glow) or in (spotlight) the viewport
    hApplied,       \* what its latest frame callback wrote (NoValue before the first)
    hLate,          \* the latest event found a frame requested and brought other coordinates
    hEvent,         \* the mouse coordinates of the latest event
    hBurst,         \* events since the latest frame callback, counted up to MaxBurst
    hFrameLate,     \* hLate when the latest frame callback ran
    hFrameNear,      \* hNear when the latest frame callback ran
    \* ---- effects scripts: page-load fade and page transitions
    nReduced,       \* prefersReducedMotion
    nReady,         \* document.readyState === 'complete' when the script runs
    nPhase,         \* "absent", "page" (script not run yet), "run" or "gone" (navigated away)
    nOpacity,       \* document.body.style.opacity ("" when not set)
    nLoadFired,     \* the window's load event has fired
    nLoadRaf,       \* the frame callback of the load listener is requested
    nTimers,        \* the hrefs of the pending navigation timeouts, oldest first
    nNavTo,         \* the href of the navigation under way (NoHref when none)
    nClicked,       \* the hrefs of the links clicked, in order
    nPrevented,      \* whether the latest click's default was cancelled: "none", "yes", "no"
    \* ---- script.js, second part: the local preview server
    sFiles,         \* the files under the server root, as relative paths
    sDirs,          \* the directories under the server root
    sBytes,         \* $bytes (NoBytes while it has no value)
    sRequest,       \* the relative path of the latest request (NoRequest before the first)
    sResponse,       \* the response to it: [status, contentType, body, closed]
    \* ---- effects scripts: the loading screen
    ldVariant,      \* "original" (innovation.js) or "optimized"
    ldReduced,      \* prefersReducedMotion
    ldLoader,       \* #cinema-loader: "absent", "present" or "removed"
    ldCountdown,    \* #loader-countdown is in the page
    ldBar,          \* #loader-bar-fill is in the page
    ldPhase,        \* "absent", "page" (script not run yet), "run" or "threw"
    ldStep,         \* step
    ldInterval,     \* the interval is set
    ldRemoveTimer,  \* the timeout that removes the loader is set
    ldRuns,         \* runs of the interval callback
    ldShown,        \* the values written to countdownEl.textContent, in order
    ldWidths,       \* the percentages written to barFill.style.width, in order
    ldLoaded,        \* times the class 'loaded' was added
    \* ---- effects scripts: the text of a stat counter
    stReduced,      \* prefersReducedMotion
    stAttr,         \* the element's data-count attribute, as characters
    stSuffix,       \* the element's data-suffix attribute, Absent when missing
    stPhase,        \* "absent", "page", "observed", "running", "done" or "set"
    stElapsed,      \* now - start at the latest frame
    stText,          \* el.textContent, as characters (InitialText before a write)
    \* ---- effects scripts: scroll reveal
    rvReduced,      \* prefersReducedMotion
    rvGrid,         \* per element: it matches '.grid-4, .grid-3, .grid-2, .stats-row, .stack'
    rvStagger,      \* per element: it has the class 'reveal-stagger'
    rvPhase,        \* "absent", "page" (script not run yet) or "run"
    rvObserved,     \* per element: it is a target of the observer
    rvActual,       \* per element: it intersects the root past the threshold
    rvQueue,        \* the queued entries [target, isIntersecting], oldest first
    rvVisible,      \* per element: it has the class 'is-visible'
    rvActed,         \* per element: callbacks that had an intersecting entry of it (up to 2)
    \* ---- effects scripts: the typewriter
    twReduced,      \* prefersReducedMotion
    twEl,           \* the page has a '.typewriter[data-typewriter]' element
    twText,         \* text, as characters
    twPhase,        \* "absent", "page" (script not run yet) or "run"
    twI,            \* i
    twTypeTimer,    \* a timeout for type is set
    twDoneTimer,    \* the timeout that adds 'done' is set
    twShown,        \* twEl.textContent (NotWritten before the script writes it)
    twLengths,      \* the lengths of the texts written, in order
    twRuns,         \* runs of type
    twTimers,       \* timeouts set so far
    twDone,          \* times the class 'done' was added
    \* ---- effects scripts: the start of a count-up animation
    anKind,         \* "stat" (.stat-number) or "number" (.highlight-number)
    anReduced,      \* prefersReducedMotion
    anTarget,       \* target
    anPhase,        \* "absent", "page" (script not run yet) or "run"
    anObserved,     \* the element is a target of its observer
    anActual,       \* the element intersects the viewport past the threshold
    anQueue,        \* isIntersecting of the element's queued entries, oldest first
    anStarts,       \* animations started on the element
    anLoops,        \* tick callbacks requested for the next frame
    anElapsed,      \* now - start at the latest frame
    anText,         \* the number in el.textContent (NoText before a write)
    anReached       \* el.textContent has shown the target

navVars  == <<pathname, links, navDone>>
formVars == <<formEl, statusEl, fields, statusText, statusBefore, formEvent, submitBefore,
              handlerTrace, requests>>

counterVars == <<cTarget, cPhase, cStart, cNow, cText, cPrev, cCounted, cRaf,
                 cFrames>>

filmVars == <<fVariant, fReduced, fPhase, fScrollAmount, fPaused, fVisible,
              fRafId, fTicks, fSeen, fScrollWidth, fClientWidth, fLastWrite,
              fActual, fQueue, fRecent>>

partVars == <<pVariant, pPhase, pW, pH, pParticle, pMouseX, pMouseY, pVisible,
              pResizeTimer>>

effVars == <<eScript, eDom, eReduced, eWide, eTouch, ePhase, eActive, eRan>>

-----------------------------------------------------------------------------
(* Generic sequence helpers                                                *)

RECURSIVE SplitOn(_, _)
\* String.prototype.split(sep): the parts between separators, empty parts kept.
SplitOn(s, sep) ==
    IF \A i \in 1..Len(s) : s[i] # sep
    THEN <<s>>
    ELSE LET k == CHOOSE i \in 1..Len(s) :
                      s[i] = sep /\ \A j \in 1..(i - 1) : s[j] # sep
         IN  <<SubSeq(s, 1, k - 1)>> \o SplitOn(SubSeq(s, k + 1, Len(s)), sep)

\* Array.prototype.filter(Boolean) on an array of strings: drops the empty ones.
FilterBoolean(parts) == SelectSeq(parts, LAMBDA p : p # <<>>)

\* The prefix of s before the first token in stops (all of s when there is none).
UpTo(s, stops) ==
    IF \A i \in 1..Len(s) : s[i] \notin stops
    THEN s
    ELSE LET k == CHOOSE i \in 1..Len(s) :
                      s[i] \in stops /\ \A j \in 1..(i - 1) : s[j] \notin stops
         IN  SubSeq(s, 1, k - 1)

RECURSIVE JoinPath(_)
\* The path "/seg1/seg2/..." of a sequence of segments.
JoinPath(segs) ==
    IF segs = <<>> THEN <<>>
    ELSE <<"/">> \o Head(segs) \o JoinPath(Tail(segs))


-----------------------------------------------------------------------------
(* script.js: navigation highlighting (setActiveNav)                       *)

\* Number of '.site-nav .nav-link' elements in the page.
NumLinks == 2

Links == 1..NumLinks

\* The text 'index.html' (script.js line 8).
IndexHtml == <<"index.html">>

\* Pathnames the page can be served under (always absolute and normalised).
SamplePaths ==
    { <<"/">>,
      <<"/", "index.html">>,
      <<"/", "platform.html">>,
      <<"/", "dir", "/">>,
      <<"/", "dir", "/", "platform.html">> }

\* Values of a link's href attribute; <<>> also stands for a missing attribute
\* (getAttribute('href') || '').
SampleHrefs ==
    { <<>>,
      <<"index.html">>,
      <<"platform.html">>,
      <<"/">>,
      <<"..", "/", "platform.html">>,
      <<"#", "top">>,
      <<"platform.html", "?", "q">>,
      <<"http:", "/", "/", "host", "/", "dir", "/", "index.html">>,
      <<"/", "/">> }

\* const basename = (path) => { ... }
basename(path) ==
    LET parts == FilterBoolean(SplitOn(path, "/"))
    IN  IF Len(parts) > 0 THEN parts[Len(parts)] ELSE IndexHtml

RECURSIVE RemoveDots(_, _)
\* The URL parser's handling of the segments of a path: '.' is dropped, '..'
\* removes the segment before it, and either of them as the last segment
\* leaves an empty last segment.
RemoveDots(segs, acc) ==
    IF segs = <<>> THEN acc
    ELSE LET s    == Head(segs)
             last == Len(segs) = 1
         IN  IF s = <<"..">>
             THEN RemoveDots(Tail(segs),
                     (IF acc = <<>> THEN acc ELSE SubSeq(acc, 1, Len(acc) - 1))
                        \o (IF last THEN << <<>> >> ELSE <<>>))
             ELSE IF s = <<".">>
             THEN RemoveDots(Tail(segs), acc \o (IF last THEN << <<>> >> ELSE <<>>))
             ELSE RemoveDots(Tail(segs), Append(acc, s))

\* The segments of an absolute path: what follows each '/'.
PathSegments(path) == Tail(SplitOn(path, "/"))

\* new URL(href, base).pathname for a page served over http(s), base being the
\* page's own URL with path basePath.  ok = FALSE when the constructor throws
\* (an authority without a host).
URLPathname(href, basePath) ==
    LET h        == UpTo(UpTo(href, {"#"}), {"?"})
        hasSch   == Len(h) >= 1 /\ h[1] = "http:"
        r        == IF hasSch THEN Tail(h) ELSE h
        hasAuth  == Len(r) >= 2 /\ r[1] = "/" /\ r[2] = "/"
        afterSl  == SubSeq(r, 3, Len(r))
        host     == UpTo(afterSl, {"/"})
        hostPath == SubSeq(afterSl, Len(host) + 1, Len(afterSl))
        baseDir  == LET b == PathSegments(basePath)
                    IN  SubSeq(b, 1, Len(b) - 1)
        absolute == Len(r) >= 1 /\ r[1] = "/"
        segs     == IF hasAuth THEN (IF hostPath = <<>> THEN << <<>> >>
                                     ELSE PathSegments(hostPath))
                    ELSE IF absolute THEN PathSegments(r)
                    ELSE baseDir \o SplitOn(r, "/")
        norm     == RemoveDots(segs, <<>>)
    IN  IF hasAuth /\ host = <<>>
        THEN [ok |-> FALSE, pathname |-> <<>>]
        ELSE IF r = <<>> /\ ~hasSch
        THEN [ok |-> TRUE, pathname |-> basePath]
        ELSE [ok |-> TRUE,
              pathname |-> IF norm = <<>> THEN <<"/">> ELSE JoinPath(norm)]

\* toLinkBasename without the URL resolution: the raw attribute's last part.
toLinkBasenameRaw(href, basePath) == basename(href)

\* const toLinkBasename = (href) => { try { ... } catch { ... } }
toLinkBasename(href, basePath) ==
    LET url == URLPathname(href, basePath)
    IN  IF url.ok THEN basename(url.pathname) ELSE basename(href)

\* The body of navLinks.forEach in setActiveNav, for one link.
MarkLink(link, current, basePath) ==
    LET isActive == toLinkBasename(link.href, basePath) = current
    IN  [href |-> link.href, isActive |-> isActive, ariaCurrent |-> isActive]

\* const setActiveNav = () => { ... }, called once when the script runs.
setActiveNav ==
    /\ ~navDone
    /\ LET current == basename(pathname)
       IN  links' = [l \in Links |-> MarkLink(links[l], current, pathname)]
    /\ navDone' = TRUE
    /\ UNCHANGED pathname

NavInit ==
    /\ pathname \in SamplePaths
    /\ links \in [Links -> [href : SampleHrefs, isActive : BOOLEAN,
                            ariaCurrent : BOOLEAN]]
    /\ navDone = FALSE

NavIdle ==
    /\ pathname = <<"/">>
    /\ links = [l \in Links |-> [href |-> <<>>, isActive |-> FALSE,
                                 ariaCurrent |-> FALSE]]
    /\ navDone = FALSE

-----------------------------------------------------------------------------
(* script.js: early-access form                                            *)

\* The five fields the submit handler reads (script.js lines 57-61).
Fields == {"name", "email", "country", "role", "language"}

\* Longest field value, in characters.
MaxValLen == 1

\* document.querySelector('#ea-...') returned null.
Absent == <<"null">>

Chars == {" ", "a"}

Values == UNION { [1..n -> Chars] : n \in 0..MaxValLen }

ValidationMsg == "Please fill out all fields."

SuccessMsg == "Thanks - you're on the early access list (demo only)."

RECURSIVE trim(_)
\* String.prototype.trim(): leading and trailing white space removed.
trim(v) ==
    IF v = <<>> THEN v
    ELSE IF Head(v) = " " THEN trim(Tail(v))
    ELSE IF v[Len(v)] = " " THEN trim(SubSeq(v, 1, Len(v) - 1))
    ELSE v

\* !el?.value.trim() for the element of field f: true for a missing element
\* and for a value that is empty once trimmed.
FieldMissing(fs, f) == fs[f] = Absent \/ trim(fs[f]) = <<>>

\* The missing-field test without trim(): only an empty value counts.
isMissingNoTrim(fs) == \E f \in Fields : fs[f] = Absent \/ fs[f] = <<>>

\* const isMissing = !name?.value.trim() || ... || !language?.value.trim();
isMissing(fs) == \E f \in Fields : FieldMissing(fs, f)

\* A control's default value, which form.reset() restores.  The markup of
\* early-access.html is not part of the sources; the fields start empty.
DefaultValue == <<>>

\* A reset that leaves the controls as they are.
ResetNothing(fs) == fs

\* earlyAccessForm.reset(): every control of the form back to its default.
ResetForm(fs) == [f \in Fields |-> IF fs[f] = Absent THEN Absent ELSE DefaultValue]

\* if (earlyAccessForm && earlyAccessStatus) { addEventListener('submit', ...) }
HandlerInstalled == formEl /\ statusEl

\* What the handler does for one submit event with the fields fs, had it
\* cancelled the default action only after a successful validation.
HandleSubmitLatePrevent(fs) ==
    IF isMissing(fs)
    THEN [status |-> ValidationMsg, fields |-> fs, sent |-> <<>>,
          trace |-> <<"validate", "status">>]
    ELSE [status |-> SuccessMsg, fields |-> ResetForm(fs), sent |-> <<>>,
          trace |-> <<"validate", "preventDefault", "status", "reset">>]

\* The body of the submit listener for the fields fs: the new status text,
\* the new field values, the data the handler itself sends (it calls nothing
\* that sends any) and the steps in the order they run.
HandleSubmit(fs) ==
    IF isMissing(fs)
    THEN [status |-> ValidationMsg, fields |-> fs, sent |-> <<>>,
          trace |-> <<"preventDefault", "validate", "status">>]
    ELSE [status |-> SuccessMsg, fields |-> ResetForm(fs), sent |-> <<>>,
          trace |-> <<"preventDefault", "validate", "status", "reset">>]

\* TRUE when the step named x is one of the steps of trace.
Ran(trace, x) == \E i \in 1..Len(trace) : trace[i] = x

\* One submit event of the form, dispatched to the installed listener.  A
\* submit whose default action is not cancelled makes the browser send the
\* field values to the form's action URL.
SubmitForm ==
    /\ HandlerInstalled
    /\ LET out == HandleSubmit(fields)
       IN  /\ statusText' = out.status
           /\ fields' = out.fields
           /\ handlerTrace' = out.trace
           /\ requests' = requests \o out.sent \o
                  (IF Ran(out.trace, "preventDefault") THEN <<>> ELSE <<fields>>)
    /\ submitBefore' = fields
    /\ statusBefore' = statusText
    /\ formEvent' = "submit"
    /\ UNCHANGED <<formEl, statusEl>>

\* The user types into (or clears) one control of the form.
EditField ==
    /\ formEl
    /\ \E f \in Fields, v \in Values :
          /\ fields[f] # Absent
          /\ fields[f] # v
          /\ fields' = [fields EXCEPT ![f] = v]
    /\ formEvent' = "edit"
    /\ submitBefore' = fields'
    /\ handlerTrace' = <<>>
    /\ statusBefore' = statusText
    /\ UNCHANGED <<formEl, statusEl, statusText, requests>>

FormInit ==
    /\ formEl \in BOOLEAN
    /\ statusEl \in BOOLEAN
    /\ fields \in [Fields -> {Absent, DefaultValue}]
    /\ statusText = ""
    /\ statusBefore = ""
    /\ formEvent = "none"
    /\ submitBefore = fields
    /\ handlerTrace = <<>>
    /\ requests = <<>>

FormIdle ==
    /\ formEl = FALSE
    /\ statusEl = FALSE
    /\ fields = [f \in Fields |-> Absent]
    /\ statusText = ""
    /\ statusBefore = ""
    /\ formEvent = "none"
    /\ submitBefore = fields
    /\ handlerTrace = <<>>
    /\ requests = <<>>

-----------------------------------------------------------------------------
(* innovation.js / optimized script: animated stat counters (animateCount) *)
(* Time is counted in units of 100 ms.                                     *)

\* const duration = 1600 (ms), 16 units of 100 ms.
duration == 16

\* Largest data-count value of a stat element.
MaxTarget == 6

\* Latest animateCount start time, and the longest time a frame may come
\* after the start.
MaxStart == 1

MaxElapsed == 24

\* The text of the element before the animation writes to it.
NoText == -1

\* Math.min(a, b)
Min(a, b) == IF a <= b THEN a ELSE b

\* Math.round of the non-negative rational num / den.
RoundDiv(num, den) == (2 * num + den) \div (2 * den)

\* The number tick(now) shows, with the progress not clamped to 1:
\* Math.round((1 - Math.pow(1 - elapsed / duration, 3)) * target).
ShownUnclamped(elapsed, target) ==
    LET d3 == duration * duration * duration
        r  == duration - elapsed
    IN  IF r >= 0 THEN RoundDiv(target * (d3 - r * r * r), d3)
        ELSE RoundDiv(target * (d3 + (-r) * (-r) * (-r)), d3)

\* The number tick(now) shows elapsed time units after the start:
\*   progress = Math.min(elapsed / duration, 1)
\*   eased    = 1 - Math.pow(1 - progress, 3)
\*   Math.round(eased * target)
\* computed exactly over the rationals: eased * target is
\* target * (duration^3 - (duration - e)^3) / duration^3 with e the clamped
\* elapsed time.
Shown(elapsed, target) ==
    LET e  == Min(elapsed, duration)
        d3 == duration * duration * duration
        r  == duration - e
    IN  RoundDiv(target * (d3 - r * r * r), d3)

\* progress < 1
ProgressBelowOne(elapsed) == elapsed < duration

\* statObserver's callback for an intersecting stat element: animateCount(el)
\* takes the start time and requests the first frame; the element is then
\* unobserved, so this happens once.
StartCount ==
    /\ cPhase = "observed"
    /\ \E s \in 0..MaxStart :
          /\ cStart' = s
          /\ cNow' = s
    /\ cRaf' = TRUE
    /\ cPhase' = "running"
    /\ UNCHANGED <<cTarget, cText, cPrev, cCounted, cFrames>>

\* const tick = (now) => { ... }: one animation frame of a running counter,
\* with a timestamp not before the previous one.
CountTick ==
    /\ cRaf
    /\ \E now \in cNow..(cStart + MaxElapsed) :
          LET elapsed == now - cStart
          IN  /\ cNow' = now
              /\ cPrev' = cText
              /\ cText' = Shown(elapsed, cTarget)
              /\ IF ProgressBelowOne(elapsed)
                 THEN /\ cRaf' = TRUE
                      /\ UNCHANGED <<cCounted, cPhase>>
                 ELSE /\ cRaf' = FALSE
                      /\ cCounted' = TRUE
                      /\ cPhase' = "done"
    /\ cFrames' = Min(cFrames + 1, 2)
    /\ UNCHANGED <<cTarget, cStart>>

CounterInit ==
    /\ cTarget \in 0..MaxTarget
    /\ cPhase = "observed"
    /\ cStart = 0
    /\ cNow = 0
    /\ cText = NoText
    /\ cPrev = NoText
    /\ cCounted = FALSE
    /\ cRaf = FALSE
    /\ cFrames = 0

CounterIdle ==
    /\ cTarget = 0
    /\ cPhase = "absent"
    /\ cStart = 0
    /\ cNow = 0
    /\ cText = NoText
    /\ cPrev = NoText
    /\ cCounted = FALSE
    /\ cRaf = FALSE
    /\ cFrames = 0

-----------------------------------------------------------------------------
(* innovation.js / optimized script: filmstrip auto-scroll, one strip      *)
(* Scroll offsets are counted in half pixels, widths in pixels.            *)

\* Widest strip content and viewport, in pixels.
MaxWidth == 3

\* const speed = 0.5 (pixels per frame), one half pixel.
speed == 1

\* fLastWrite before anything was written to strip.scrollLeft.
NoWrite == [value |-> -1, limit |-> -1, advanced |-> -1]

\* strip.scrollWidth - strip.clientWidth, in half pixels.
ScrollLimit(sw, cw) == 2 * (sw - cw)

\* The advanced offset wrapped only when it is beyond the maximum.
WrapBeyond(advanced, limit) == IF advanced > limit THEN 0 ELSE advanced

\* if (scrollAmount >= strip.scrollWidth - strip.clientWidth) scrollAmount = 0;
Wrap(advanced, limit) == IF advanced >= limit THEN 0 ELSE advanced

\* The scrolling part shared by autoScroll() and tick():
\*   if (!paused && strip.scrollWidth > strip.clientWidth) {
\*       scrollAmount += speed; <wrap>; strip.scrollLeft = scrollAmount; }
ScrollStep ==
    IF ~fPaused /\ fScrollWidth > fClientWidth
    THEN LET limit    == ScrollLimit(fScrollWidth, fClientWidth)
             advanced == fScrollAmount + speed
             wrapped  == Wrap(advanced, limit)
         IN  /\ fScrollAmount' = wrapped
             /\ fLastWrite' = [value |-> wrapped, limit |-> limit,
                               advanced |-> advanced]
    ELSE UNCHANGED <<fScrollAmount, fLastWrite>>

\* Most entries the observer holds for the strip between two callbacks.
MaxEntries == 2

\* The last two events, with ev added.
Recent(ev) == IF fRecent = <<>> THEN <<ev>> ELSE <<fRecent[Len(fRecent)], ev>>

\* The body of filmstrips.forEach for the strip when the script runs.
\* Neither version tests prefersReducedMotion here.  The original calls
\* autoScroll() at once, which scrolls and requests the next frame; the
\* optimized one only installs the observer, which queues a first entry
\* with the strip's intersection state.
FilmSetup ==
    /\ fPhase = "page"
    /\ fPhase' = "set up"
    /\ IF fVariant = "original"
       THEN /\ ScrollStep
            /\ fTicks' = fTicks + 1
            /\ UNCHANGED fQueue
       ELSE /\ fQueue' = <<fActual>>
            /\ UNCHANGED <<fScrollAmount, fLastWrite, fTicks>>
    /\ UNCHANGED <<fVariant, fReduced, fPaused, fVisible, fRafId, fSeen,
                   fScrollWidth, fClientWidth, fActual, fRecent>>

\* strip.addEventListener('mouseenter', () => paused = true)
FilmMouseEnter ==
    /\ fPhase = "set up"
    /\ ~fPaused
    /\ fPaused' = TRUE
    /\ UNCHANGED <<fVariant, fReduced, fPhase, fScrollAmount, fVisible, fRafId,
                   fTicks, fSeen, fScrollWidth, fClientWidth, fLastWrite,
                   fActual, fQueue, fRecent>>

\* strip.addEventListener('mouseleave', () => paused = false)
FilmMouseLeave ==
    /\ fPhase = "set up"
    /\ fPaused
    /\ fPaused' = FALSE
    /\ UNCHANGED <<fVariant, fReduced, fPhase, fScrollAmount, fVisible, fRafId,
                   fTicks, fSeen, fScrollWidth, fClientWidth, fLastWrite,
                   fActual, fQueue, fRecent>>

\* The strip scrolls into or out of the viewport.  The observer of the
\* optimized script queues an entry for the change; entries stay queued
\* until the callback is invoked.
FilmIntersect ==
    /\ fPhase = "set up"
    /\ fActual' = ~fActual
    /\ IF fVariant = "optimized"
       THEN /\ Len(fQueue) < MaxEntries
            /\ fQueue' = Append(fQueue, ~fActual)
       ELSE UNCHANGED fQueue
    /\ UNCHANGED <<fVariant, fReduced, fPhase, fScrollAmount, fPaused, fVisible,
                   fRafId, fTicks, fSeen, fScrollWidth, fClientWidth,
                   fLastWrite, fRecent>>

\* A variant that starts a loop on every callback that reads "intersecting".
ShouldStartAlways(vis, rafSet) == vis

\* if (visible && rafId === null) startScroll();
ShouldStart(vis, rafSet) == vis /\ ~rafSet

\* The IntersectionObserver callback of the optimized script, invoked with
\* all the queued entries:
\*   visible = entries[0].isIntersecting;
\*   if (visible && rafId === null) startScroll();
\* startScroll() requests a tick and stores its id in rafId.
FilmObserved ==
    /\ fPhase = "set up"
    /\ fVariant = "optimized"
    /\ fQueue # <<>>
    /\ LET entries == fQueue
           b       == entries[1]
       IN  /\ fQueue' = <<>>
           /\ fSeen' = (IF b THEN "yes" ELSE "no")
           /\ fVisible' = b
           /\ fRecent' = Recent(IF b THEN "show" ELSE "hide")
           /\ IF ShouldStart(b, fRafId)
              THEN /\ fRafId' = TRUE
                   /\ fTicks' = fTicks + 1
              ELSE UNCHANGED <<fRafId, fTicks>>
    /\ UNCHANGED <<fVariant, fReduced, fPhase, fScrollAmount, fPaused,
                   fScrollWidth, fClientWidth, fLastWrite, fActual>>

\* One requested frame callback runs: autoScroll() of the original script,
\* tick() of the optimized one, which stops when the strip is not visible.
FilmTick ==
    /\ fTicks > 0
    /\ fRecent' = Recent("tick")
    /\ IF fVariant = "optimized" /\ ~fVisible
       THEN /\ fRafId' = FALSE
            /\ fTicks' = fTicks - 1
            /\ UNCHANGED <<fScrollAmount, fLastWrite>>
       ELSE /\ ScrollStep
            /\ fTicks' = fTicks - 1 + 1
            /\ UNCHANGED fRafId
    /\ UNCHANGED <<fVariant, fReduced, fPhase, fPaused, fVisible, fSeen,
                   fScrollWidth, fClientWidth, fActual, fQueue>>

\* The strip's content changes width (images load, the window is resized).
FilmLayout ==
    /\ \E sw \in 0..MaxWidth :
          /\ sw # fScrollWidth
          /\ sw >= fClientWidth
          /\ fScrollWidth' = sw
    /\ UNCHANGED <<fVariant, fReduced, fPhase, fScrollAmount, fPaused, fVisible,
                   fRafId, fTicks, fSeen, fClientWidth, fLastWrite, fActual,
                   fQueue, fRecent>>

FilmInit ==
    /\ fVariant \in {"original", "optimized"}
    /\ fReduced \in BOOLEAN
    /\ fPhase = "page"
    /\ fScrollAmount = 0
    /\ fPaused = FALSE
    /\ fVisible = FALSE
    /\ fRafId = FALSE
    /\ fTicks = 0
    /\ fSeen = "unknown"
    /\ fClientWidth \in 0..MaxWidth
    /\ fScrollWidth \in fClientWidth..MaxWidth
    /\ fLastWrite = NoWrite
    /\ fActual \in BOOLEAN
    /\ fQueue = <<>>
    /\ fRecent = <<>>

FilmIdle ==
    /\ fVariant = "original"
    /\ fReduced = FALSE
    /\ fPhase = "absent"
    /\ fScrollAmount = 0
    /\ fPaused = FALSE
    /\ fVisible = FALSE
    /\ fRafId = FALSE
    /\ fTicks = 0
    /\ fSeen = "unknown"
    /\ fClientWidth = 0
    /\ fScrollWidth = 0
    /\ fLastWrite = NoWrite
    /\ fActual = FALSE
    /\ fQueue = <<>>
    /\ fRecent = <<>>

-----------------------------------------------------------------------------
(* innovation.js / optimized script: particle constellation, one particle  *)
(* update() and createParticles() treat every particle on its own, so one  *)
(* particle stands for each of them.  Positions and velocities are counted *)
(* in half pixels (per frame); the canvas size is a whole number of        *)
(* pixels.  Velocity changes smaller than half a pixel per frame are below *)
(* this resolution: a repulsion step changes a velocity component by one   *)
(* unit away from the mouse or leaves it, whichever the accumulated        *)
(* fraction gives.                                                         *)

\* Largest width and height of the canvas panel, in pixels.
MaxCanvas == 1

\* mouseCanvasX = mouseCanvasY = -999 while the mouse is outside the panel.
MouseAway == -999

\* The speed limit 1.5 (pixels per frame), 3 half pixels.
SpeedLimit == 3

\* The repulsion radius 120 (pixels), 240 half pixels.
RepelDist == 240

Max(a, b) == IF a >= b THEN a ELSE b

Abs(a) == IF a >= 0 THEN a ELSE -a

Sign(a) == IF a > 0 THEN 1 ELSE IF a < 0 THEN -1 ELSE 0

\* A clamp without its upper bound.
ClampLow(v, hi) == Max(0, v)

\* Math.max(0, Math.min(hi, v))
Clamp(v, hi) == Max(0, Min(hi, v))

\* v * 0.998, rounded to the resolution.
Damp(v) == Sign(v) * RoundDiv(Abs(v) * 998, 1000)

\* (v / speed) * 1.5 for a velocity of squared length speedSq, truncated to
\* the resolution: the largest k with (k / 1.5)^2 * speedSq <= v^2.
Limited(v, speedSq) ==
    Sign(v) * (CHOOSE k \in 0..SpeedLimit :
                  /\ k * k * speedSq <= SpeedLimit * SpeedLimit * v * v
                  /\ \A j \in (k + 1)..SpeedLimit :
                        j * j * speedSq > SpeedLimit * SpeedLimit * v * v)

\* The velocity components a repulsion step can give, for the offset d of the
\* particle from the mouse on that axis.
Repelled(v, d) == {v, v + Sign(d)}

\* The body of update()'s loop for the particle p = [x, y, vx, vy], with the
\* repelled velocity (rvx, rvy) already chosen: damping, speed limit, move,
\* bounce and clamp.  w2, h2 are w and h in half pixels.
Moved(p, rvx, rvy, w2, h2) ==
    LET dvx     == Damp(rvx)
        dvy     == Damp(rvy)
        speedSq == dvx * dvx + dvy * dvy
        over    == speedSq > SpeedLimit * SpeedLimit
        vx1     == IF over THEN Limited(dvx, speedSq) ELSE dvx
        vy1     == IF over THEN Limited(dvy, speedSq) ELSE dvy
        x1      == p.x + vx1
        y1      == p.y + vy1
    IN  [x  |-> Clamp(x1, w2),
         y  |-> Clamp(y1, h2),
         vx |-> IF x1 < 0 \/ x1 > w2 THEN -vx1 ELSE vx1,
         vy |-> IF y1 < 0 \/ y1 > h2 THEN -vy1 ELSE vy1]

\* The particles update() can produce from p: the mouse repels when
\* mouseCanvasX > 0 and the particle is within 120 px of it but not on it.
Updated(p, mx, my, w2, h2) ==
    LET dx     == p.x - 2 * mx
        dy     == p.y - 2 * my
        distSq == dx * dx + dy * dy
        repel  == mx > 0 /\ distSq < RepelDist * RepelDist /\ distSq > 0
    IN  IF repel
        THEN { Moved(p, rvx, rvy, w2, h2) :
                  rvx \in Repelled(p.vx, dx), rvy \in Repelled(p.vy, dy) }
        ELSE { Moved(p, p.vx, p.vy, w2, h2) }

\* Math.random() * size for a size in pixels: a position in [0, size).
RandomBelow(size) == IF size = 0 THEN {0} ELSE 0..(2 * size - 1)

\* (Math.random() - 0.5) * SPEED lies in [-0.15, 0.15): below the resolution.
RandomVelocity == {0}

\* resize() followed by createParticles(): w and h are taken from the
\* panel's rectangle (rw x rh pixels) and the particle is made anew.
ResizeAndCreate(rw, rh) ==
    /\ pW' = rw
    /\ pH' = rh
    /\ \E x \in RandomBelow(rw), y \in RandomBelow(rh),
          vx \in RandomVelocity, vy \in RandomVelocity :
          pParticle' = [x |-> x, y |-> y, vx |-> vx, vy |-> vy]

\* The effect's block runs: resize(); createParticles();
\* requestAnimationFrame(loop).
PartSetup ==
    /\ pPhase = "page"
    /\ pPhase' = "running"
    /\ \E rw \in 0..MaxCanvas, rh \in 0..MaxCanvas : ResizeAndCreate(rw, rh)
    /\ UNCHANGED <<pVariant, pMouseX, pMouseY, pVisible, pResizeTimer>>

\* mousemove on the canvas panel.
PartMouseMove ==
    /\ pPhase = "running"
    /\ \E mx \in 0..MaxCanvas, my \in 0..MaxCanvas :
          /\ <<mx, my>> # <<pMouseX, pMouseY>>
          /\ pMouseX' = mx
          /\ pMouseY' = my
    /\ UNCHANGED <<pVariant, pPhase, pW, pH, pParticle, pVisible, pResizeTimer>>

\* mouseleave on the canvas panel.
PartMouseLeave ==
    /\ pPhase = "running"
    /\ pMouseX # MouseAway
    /\ pMouseX' = MouseAway
    /\ pMouseY' = MouseAway
    /\ UNCHANGED <<pVariant, pPhase, pW, pH, pParticle, pVisible, pResizeTimer>>

\* canvasObserver's callback (optimized script).
PartObserved ==
    /\ pPhase = "running"
    /\ pVariant = "optimized"
    /\ pVisible' = ~pVisible
    /\ UNCHANGED <<pVariant, pPhase, pW, pH, pParticle, pMouseX, pMouseY,
                   pResizeTimer>>

\* loop(time): update() and draw(), in the optimized script only while the
\* canvas is visible; the next frame is requested in any case.
PartFrame ==
    /\ pPhase = "running"
    /\ IF pVariant = "original" \/ pVisible
       THEN pParticle' \in Updated(pParticle, pMouseX, pMouseY, 2 * pW, 2 * pH)
       ELSE UNCHANGED pParticle
    /\ UNCHANGED <<pVariant, pPhase, pW, pH, pMouseX, pMouseY, pVisible,
                   pResizeTimer>>

\* The window's resize event: the original script resizes and re-creates at
\* once, the optimized one (re)starts a 200 ms timer.
PartResizeEvent ==
    /\ pPhase = "running"
    /\ IF pVariant = "original"
       THEN /\ \E rw \in 0..MaxCanvas, rh \in 0..MaxCanvas : ResizeAndCreate(rw, rh)
            /\ UNCHANGED pResizeTimer
       ELSE /\ ~pResizeTimer
            /\ pResizeTimer' = TRUE
            /\ UNCHANGED <<pW, pH, pParticle>>
    /\ UNCHANGED <<pVariant, pPhase, pMouseX, pMouseY, pVisible>>

\* The debounce timer of the optimized script fires: resize();
\* createParticles().
PartResizeTimer ==
    /\ pResizeTimer
    /\ pResizeTimer' = FALSE
    /\ \E rw \in 0..MaxCanvas, rh \in 0..MaxCanvas : ResizeAndCreate(rw, rh)
    /\ UNCHANGED <<pVariant, pPhase, pMouseX, pMouseY, pVisible>>

NoParticle == [x |-> 0, y |-> 0, vx |-> 0, vy |-> 0]

PartInit ==
    /\ pVariant \in {"original", "optimized"}
    /\ pPhase = "page"
    /\ pW = 0
    /\ pH = 0
    /\ pParticle = NoParticle
    /\ pMouseX = MouseAway
    /\ pMouseY = MouseAway
    /\ pVisible = TRUE
    /\ pResizeTimer = FALSE

PartIdle ==
    /\ pVariant = "original"
    /\ pPhase = "absent"
    /\ pW = 0
    /\ pH = 0
    /\ pParticle = NoParticle
    /\ pMouseX = MouseAway
    /\ pMouseY = MouseAway
    /\ pVisible = TRUE
    /\ pResizeTimer = FALSE

-----------------------------------------------------------------------------
(* Initialization of the three scripts on a page, and which effect writes  *)
(* which property                                                          *)

Scripts == {"script.js", "innovation.js", "optimized"}

\* The elements each script looks up, by id or class.
ScriptElements(script) ==
    IF script = "script.js"
    THEN {"nav-toggle", "site-nav", "early-access-form", "early-access-status"}
    ELSE {"cinema-loader", "loader-countdown", "loader-bar-fill",
          "particle-canvas", "typewriter", "stat-number", "card", "filmstrip",
          "card-spotlight", "html-link", "highlight-number", "button",
          "text-3d", "sprocket-hole"}

\* The elements every modelled page has: each is the target of one
\* querySelectorAll(...).forEach, like the ones that are left out or not.
AlwaysPresent == {"card-spotlight", "button", "text-3d", "sprocket-hole"}

\* The blocks of a script in the order they run.
Blocks(script) ==
    IF script = "script.js"
    THEN <<"navToggle", "form", "activeNav">>
    ELSE <<"loader", "progress", "cursor", "particles", "typewriter", "reveal",
           "counters", "tilt", "glow", "parallax", "filmstrip", "magnetic",
           "textReveal", "sprocket", "pageLoad", "spotlight", "transitions",
           "blobs", "numbers">>

\* A variant without the mobile test.
isMobileNever(script, wide, touch) == FALSE

\* const isMobile = window.innerWidth <= 768 || ('ontouchstart' in window);
\* the original script has no such test.
isMobile(script, wide, touch) == script = "optimized" /\ (~wide \/ touch)

\* The block of effect e acts (attaches a listener or an observer, starts a
\* timer or a frame loop, or writes the final state) for the elements dom
\* and the feature checks.
Starts(script, e, dom, reduced, wide, touch) ==
    LET mobile == isMobile(script, wide, touch)
    IN  CASE e = "navToggle"  -> "nav-toggle" \in dom /\ "site-nav" \in dom
          [] e = "form"       -> "early-access-form" \in dom
                                 /\ "early-access-status" \in dom
          [] e = "activeNav"  -> TRUE
          [] e = "loader"     -> "cinema-loader" \in dom
          [] e = "progress"   -> ~reduced
          [] e = "cursor"     -> ~reduced /\ ~mobile /\ wide
          [] e = "particles"  -> "particle-canvas" \in dom /\ ~reduced /\ ~mobile
          [] e = "typewriter" -> "typewriter" \in dom
          [] e = "reveal"     -> ~reduced
          [] e = "counters"   -> "stat-number" \in dom
          [] e = "tilt"       -> ~reduced /\ ~mobile /\ "card" \in dom
          [] e = "glow"       -> ~reduced /\ ~mobile
          [] e = "parallax"   -> ~reduced /\ ~mobile
          [] e = "filmstrip"  -> "filmstrip" \in dom
          [] e = "magnetic"   -> ~reduced /\ ~mobile /\ "button" \in dom
          [] e = "textReveal" -> ~reduced /\ "text-3d" \in dom
          [] e = "sprocket"   -> /\ ~reduced /\ ~mobile
                                 /\ (script = "optimized" => "sprocket-hole" \in dom)
          [] e = "pageLoad"   -> ~reduced
          [] e = "spotlight"  -> /\ ~reduced /\ ~mobile
                                 /\ (script = "optimized" => "card-spotlight" \in dom)
          [] e = "transitions" -> ~reduced /\ "html-link" \in dom
          [] e = "blobs"      -> ~reduced /\ ~mobile
          [] e = "numbers"    -> "highlight-number" \in dom

\* The block of effect e throws: the original script writes
\* barFill.style.width = '20%' without testing barFill.
Throws(script, e, dom, reduced) ==
    /\ script = "innovation.js"
    /\ e = "loader"
    /\ "cinema-loader" \in dom
    /\ ~reduced
    /\ "loader-bar-fill" \notin dom

RECURSIVE RunBlocks(_, _, _, _, _, _, _)
\* The script's blocks run in order; an exception ends the script.  The
\* loader block that throws has started its interval timer before.
RunBlocks(script, blocks, dom, reduced, wide, touch, acc) ==
    IF blocks = <<>> THEN [active |-> acc, threw |-> FALSE]
    ELSE IF Throws(script, Head(blocks), dom, reduced)
    THEN [active |-> acc \cup {Head(blocks)}, threw |-> TRUE]
    ELSE RunBlocks(script, Tail(blocks), dom, reduced, wide, touch,
                   IF Starts(script, Head(blocks), dom, reduced, wide, touch)
                   THEN acc \cup {Head(blocks)} ELSE acc)

\* The script is loaded and runs from its first statement to its last.
RunScript ==
    /\ ePhase = "page"
    /\ LET out == RunBlocks(eScript, Blocks(eScript), eDom, eReduced, eWide,
                            eTouch, {})
       IN  /\ eActive' = out.active
           /\ ePhase' = IF out.threw THEN "threw" ELSE "done"
    /\ UNCHANGED <<eScript, eDom, eReduced, eWide, eTouch, eRan>>

\* The properties the callbacks of effect e write, as <<element, property>>.
Writes(script, e) ==
    CASE e = "loader"     -> {<<"loader-countdown", "textContent">>,
                              <<"loader-bar-fill", "style.width">>,
                              <<"cinema-loader", "class">>}
      [] e = "progress"   -> {<<"progress-bar", "style.width">>}
      [] e = "cursor"     -> {<<"cc-cursor", "style.transform">>,
                              <<"cc-cursor", "class">>,
                              <<"cc-cursor", "style.opacity">>,
                              <<"cc-trail-dot", "style.transform">>,
                              <<"cc-trail-dot", "style.opacity">>}
      [] e = "particles"  -> {<<"particle-canvas", "width">>,
                              <<"particle-canvas", "height">>}
      [] e = "typewriter" -> {<<"typewriter", "textContent">>,
                              <<"typewriter", "class">>}
      [] e = "reveal"     -> {<<"section", "class">>}
      [] e = "counters"   -> {<<"stat-number", "textContent">>,
                              <<"stat-number", "class">>}
      [] e = "tilt"       -> {<<"card", "style.transition">>,
                              <<"card", "--mouse-x">>,
                              <<"card", "--mouse-y">>,
                              <<"card", "style.transform">>}
                             \cup (IF script = "innovation.js"
                                   THEN {<<"card", "--rx">>, <<"card", "--ry">>}
                                   ELSE {})
      [] e = "glow"       -> {<<"card", "--mouse-x">>, <<"card", "--mouse-y">>}
      [] e = "parallax"   -> {<<"scene-3d", "style.transform">>}
      [] e = "filmstrip"  -> {<<"filmstrip", "scrollLeft">>}
      [] e = "magnetic"   -> {<<"button", "style.transform">>}
      [] e = "textReveal" -> {<<"text-3d", "style.opacity">>,
                              <<"text-3d", "style.transform">>}
      [] e = "sprocket"   -> {<<"sprocket-hole", "style.animation">>}
      [] e = "pageLoad"   -> {<<"body", "style.opacity">>,
                              <<"body", "style.transition">>}
      [] e = "spotlight"  -> {<<"card-spotlight", "--spotlight-x">>,
                              <<"card-spotlight", "--spotlight-y">>}
      [] e = "transitions" -> {<<"body", "style.opacity">>,
                               <<"body", "style.transition">>}
                              \cup (IF script = "innovation.js"
                                    THEN {<<"body", "style.transform">>}
                                    ELSE {})
      [] e = "blobs"      -> {<<"body", "--parallax-shift">>}
      [] e = "numbers"    -> {<<"highlight-number", "textContent">>}
      [] e = "navToggle"  -> {<<"site-nav", "class">>,
                              <<"nav-toggle", "aria-expanded">>}
      [] e = "form"       -> {<<"early-access-status", "textContent">>,
                              <<"early-access-form", "values">>}
      [] e = "activeNav"  -> {<<"nav-link", "class">>,
                              <<"nav-link", "aria-current">>}

\* Most effects whose callbacks are followed at a time.
MaxRan == 2

\* A callback of the started effect e runs (a listener, an observer
\* callback, a timer or a frame) and writes what it writes.
RunCallback ==
    /\ ePhase = "done"
    /\ Cardinality(eRan) < MaxRan
    /\ \E e \in eActive \ eRan : eRan' = eRan \cup {e}
    /\ UNCHANGED <<eScript, eDom, eReduced, eWide, eTouch, ePhase, eActive>>

\* The effects that have written the property r so far.
WritersOf(r) == {e \in eRan : r \in Writes(eScript, e)}

\* Every property some effect can write.
AllResources ==
    UNION {UNION {Writes(s, Blocks(s)[i]) : i \in 1..Len(Blocks(s))} : s \in Scripts}

\* Any page: the script, the feature checks, and any set of the elements the
\* script looks up.
EffectsInit ==
    /\ eScript \in Scripts
    /\ \E absent \in SUBSET (ScriptElements(eScript) \ AlwaysPresent) :
          eDom = ScriptElements(eScript) \ absent
    /\ eReduced \in BOOLEAN
    /\ eWide \in BOOLEAN
    /\ eTouch \in BOOLEAN
    /\ ePhase = "page"
    /\ eActive = {}
    /\ eRan = {}

\* A page that has every element the script looks up.
FullPageInit ==
    /\ eScript \in Scripts
    /\ eDom = ScriptElements(eScript)
    /\ eReduced \in BOOLEAN
    /\ eWide \in BOOLEAN
    /\ eTouch \in BOOLEAN
    /\ ePhase = "page"
    /\ eActive = {}
    /\ eRan = {}

EffectsIdle ==
    /\ eScript = "script.js"
    /\ eDom = {}
    /\ eReduced = FALSE
    /\ eWide = FALSE
    /\ eTouch = FALSE
    /\ ePhase = "absent"
    /\ eActive = {}
    /\ eRan = {}

-----------------------------------------------------------------------------
(* script.js: navigation toggle                                            *)

toggleVars == <<tToggleEl, tNavEl, tOpen, tAria, tStartOpen, tClicks, tLast>>

\* Toggle clicks followed in a row.
MaxClicks == 12

\* if (navToggle && siteNav): both listeners are installed together.
ToggleInstalled == tToggleEl /\ tNavEl

\* A variant of classList.toggle that only ever adds the class.
classListAdd(has) == TRUE

\* siteNav.classList.toggle('is-open'): flips the class, returns whether it is now set.
classListToggle(has) == ~has

\* String(isOpen)
BoolString(b) == IF b THEN "true" ELSE "false"

\* A click on the toggle button: the navToggle listener, if there is one.
ToggleClick ==
    /\ tToggleEl
    /\ tClicks < MaxClicks
    /\ tLast' = "toggle"
    /\ IF ToggleInstalled
       THEN LET isOpen == classListToggle(tOpen)
            IN /\ tOpen' = isOpen
               /\ tAria' = BoolString(isOpen)
       ELSE UNCHANGED <<tOpen, tAria>>
    /\ tClicks' = tClicks + 1
    /\ UNCHANGED <<tToggleEl, tNavEl, tStartOpen>>

\* A click inside the panel, on a link (anchor) or on something else: the
\* siteNav listener, if there is one.
PanelClick ==
    /\ tNavEl
    /\ \E anchor \in BOOLEAN :
        /\ tLast' = IF anchor THEN "link" ELSE "other"
        /\ IF ToggleInstalled /\ anchor /\ tOpen
           THEN /\ tOpen' = FALSE
                /\ tAria' = "false"
                /\ tStartOpen' = FALSE
                /\ tClicks' = 0
           ELSE UNCHANGED <<tOpen, tAria, tStartOpen, tClicks>>
    /\ UNCHANGED <<tToggleEl, tNavEl>>

\* The page as served: either element may be missing, the panel may carry
\* is-open and the button may carry aria-expanded in the markup.
ToggleInit ==
    /\ tToggleEl \in BOOLEAN
    /\ tNavEl \in BOOLEAN
    /\ tOpen \in (IF tNavEl THEN BOOLEAN ELSE {FALSE})
    /\ tAria \in (IF tToggleEl THEN {"none", "true", "false"} ELSE {"none"})
    /\ tStartOpen = tOpen
    /\ tClicks = 0
    /\ tLast = "none"

\* The toggle is not part of the specification.
ToggleIdle ==
    /\ tToggleEl = FALSE
    /\ tNavEl = FALSE
    /\ tOpen = FALSE
    /\ tAria = "none"
    /\ tStartOpen = FALSE
    /\ tClicks = 0
    /\ tLast = "none"

-----------------------------------------------------------------------------
(* optimized script: the repeating timers and animation-frame loops, on a  *)
(* desktop page without reduced motion that has every element              *)

loopVars == <<lSched, lStep, lVisible, lQuiet, lText>>

Loops == {"loader", "cursor", "particles", "typewriter", "counters", "filmstrip"}

\* nums.length
NumsLength == 5

\* Longest typewriter text.
MaxText == 2

\* Time that passes between two frames of the counter, in units of 100 ms.
FrameGaps == {4, 8}

\* One loop's callback has run: whether it rescheduled itself, its new step,
\* and whether it ran at its end or with its target hidden.
LoopRan(l, again, step, atEnd) ==
    /\ lSched' = [lSched EXCEPT ![l] = again]
    /\ lStep' = [lStep EXCEPT ![l] = step]
    /\ lQuiet' = [lQuiet EXCEPT ![l] = atEnd \/ ~lVisible[l]]
    /\ UNCHANGED <<lVisible, lText>>

\* The target of a loop is shown or hidden.
LoopShown(l, shown) ==
    /\ lVisible[l] # shown
    /\ lVisible' = [lVisible EXCEPT ![l] = shown]
    /\ lQuiet' = [lQuiet EXCEPT ![l] = IF shown THEN FALSE ELSE lQuiet[l]]

\* The setInterval callback of the loader: step++, and clearInterval(interval)
\* once step >= nums.length.
LoaderInterval ==
    /\ lSched["loader"]
    /\ LET step == lStep["loader"] + 1
       IN  LoopRan("loader", ~(step >= NumsLength), step, step >= NumsLength)

\* animateCursor(): moves the cursor and the trail, then
\* requestAnimationFrame(animateCursor).
AnimateCursor ==
    /\ lSched["cursor"]
    /\ LoopRan("cursor", TRUE, 0, FALSE)

\* The document's mouseleave and mouseenter listeners hide and show the
\* cursor.
CursorMouseLeaveEnter ==
    /\ \E shown \in BOOLEAN : LoopShown("cursor", shown)
    /\ UNCHANGED <<lSched, lStep, lText>>

\* loop(time): update and draw if (canvasVisible), then
\* requestAnimationFrame(loop).
ParticleLoop ==
    /\ lSched["particles"]
    /\ LoopRan("particles", TRUE, 0, FALSE)

\* canvasObserver's callback: canvasVisible = entries[0].isIntersecting.
CanvasObserved ==
    /\ \E shown \in BOOLEAN : LoopShown("particles", shown)
    /\ UNCHANGED <<lSched, lStep, lText>>

\* type(): if (i <= text.length) writes the slice, i++, setTimeout(type);
\* otherwise a single timeout adds the class 'done'.
TypeStep ==
    /\ lSched["typewriter"]
    /\ LET i == lStep["typewriter"]
       IN  IF i <= lText
           THEN LoopRan("typewriter", TRUE, i + 1, FALSE)
           ELSE LoopRan("typewriter", FALSE, i, TRUE)

\* statObserver's callback for an intersecting stat: animateCount(el)
\* requests the first tick, and the stat is unobserved.
CounterObserved ==
    /\ ~lSched["counters"]
    /\ lStep["counters"] = 0
    /\ lSched' = [lSched EXCEPT !["counters"] = TRUE]
    /\ UNCHANGED <<lStep, lVisible, lQuiet, lText>>

\* tick(now) of a counter: requests another frame if (progress < 1).
CounterFrame ==
    /\ lSched["counters"]
    /\ \E gap \in FrameGaps :
          LET elapsed == Min(lStep["counters"] + gap, MaxElapsed)
          IN  LoopRan("counters", ProgressBelowOne(elapsed), elapsed,
                      ~ProgressBelowOne(elapsed))

\* The filmstrip observer's callback: visible is set, and startScroll()
\* requests a tick if (visible && rafId === null).
StripObserved ==
    /\ \E shown \in BOOLEAN :
          /\ LoopShown("filmstrip", shown)
          /\ lSched' = [lSched EXCEPT
                          !["filmstrip"] = @ \/ ShouldStart(shown, @)]
    /\ UNCHANGED <<lStep, lText>>

\* tick() of the filmstrip: returns without a request if (!visible).
StripTick ==
    /\ lSched["filmstrip"]
    /\ LoopRan("filmstrip", lVisible["filmstrip"], 0, FALSE)

\* The state when the script has run: the loader interval, the cursor and
\* particle loops and the typewriter's first timeout are scheduled, type()
\* has run once; the counter and the filmstrip wait for their observers.
LoopsInit ==
    /\ lText \in 0..MaxText
    /\ lSched = [l \in Loops |-> l \in {"loader", "cursor", "particles", "typewriter"}]
    /\ lStep = [l \in Loops |-> IF l = "typewriter" THEN 1 ELSE 0]
    /\ lVisible = [l \in Loops |-> l # "filmstrip"]
    /\ lQuiet = [l \in Loops |-> FALSE]

\* The script has not run.
LoopsIdle ==
    /\ lText = 0
    /\ lSched = [l \in Loops |-> FALSE]
    /\ lStep = [l \in Loops |-> 0]
    /\ lVisible = [l \in Loops |-> FALSE]
    /\ lQuiet = [l \in Loops |-> FALSE]

-----------------------------------------------------------------------------
(* optimized script: the handlers throttled with requestAnimationFrame.    *)
(* The five handlers share no variable, so one of them is followed at a    *)
(* time.  Mouse coordinates are taken relative to the card; scroll         *)
(* positions are counted in steps of 4 px.                                 *)

throttleVars == <<hWhich, hTicking, hPending, hMouse, hScrollY, hNear, hApplied,
                  hLate, hEvent, hBurst, hFrameLate, hFrameNear>>

ScrollHandlers == {"progress", "parallax", "blobs"}

MouseHandlers == {"glow", "spotlight"}

\* Largest mouse coordinate.
MaxCoord == 1

\* Largest scroll position.
MaxScroll == 2

\* Events counted between two frames.
MaxBurst == 2

Coords == (0..MaxCoord) \X (0..MaxCoord)

\* hApplied before the first frame callback: a tuple no callback writes.
NoValue == <<-1>>

\* A variant without the ticking test.
ShouldRequestAlways(ticking) == TRUE

\* if (!progressTicking), if (!cardGlowTicking), if (!parallaxTicking),
\* if (!spotTicking), if (!blobTicking)
ShouldRequest(ticking) == ~ticking

\* A variant that stores the coordinates only with the event that requests
\* the frame.
StoredWhenRequesting(ticking, old, new) == IF ticking THEN old ELSE new

\* lastCardMouseX = e.clientX; lastCardMouseY = e.clientY (spotMx, spotMy):
\* stored on every event, before the ticking test.
Stored(ticking, old, new) == new

\* The listener: stores the coordinates (mouse handlers), and requests a
\* frame callback and sets the flag unless the flag is set.
ThrottledEvent(new) ==
    /\ hMouse' = IF hWhich \in MouseHandlers
                 THEN Stored(hTicking, hMouse, new) ELSE hMouse
    /\ IF ShouldRequest(hTicking)
       THEN /\ hPending' = hPending + 1
            /\ hTicking' = TRUE
       ELSE UNCHANGED <<hPending, hTicking>>
    /\ hLate' = (hTicking /\ new # hEvent)
    /\ hEvent' = new
    /\ hBurst' = Min(hBurst + 1, MaxBurst)
    /\ UNCHANGED <<hWhich, hNear, hApplied, hFrameLate, hFrameNear>>

\* A mousemove event reaches the card-glow or the spotlight listener.
MouseMove ==
    /\ hWhich \in MouseHandlers
    /\ \E c \in Coords : ThrottledEvent(c)
    /\ UNCHANGED hScrollY

\* The page scrolls: window.scrollY changes, the set of cards near the
\* viewport may change, and the scroll listeners run.
Scroll ==
    /\ hWhich # "none"
    /\ \E y \in 0..MaxScroll, near \in BOOLEAN :
          /\ y # hScrollY
          /\ hScrollY' = y
          /\ IF hWhich \in ScrollHandlers
             THEN /\ ThrottledEvent(hEvent)
                  /\ near = hNear
             ELSE /\ hNear' = near
                  /\ UNCHANGED <<hWhich, hTicking, hPending, hMouse, hApplied,
                                 hLate, hEvent, hBurst, hFrameLate,
                                 hFrameNear>>

\* A requested frame callback runs: it writes the value it reads now (the
\* stored coordinates for a card that passes the viewport test, the scroll
\* position for the scroll handlers) and clears the flag.
ThrottledFrame ==
    /\ hPending > 0
    /\ hPending' = hPending - 1
    /\ hTicking' = FALSE
    /\ hApplied' = IF hWhich \in MouseHandlers
                   THEN (IF hNear THEN hMouse ELSE hApplied)
                   ELSE <<hScrollY>>
    /\ hFrameLate' = hLate
    /\ hLate' = FALSE
    /\ hFrameNear' = hNear
    /\ hBurst' = 0
    /\ UNCHANGED <<hWhich, hMouse, hScrollY, hNear, hEvent>>

\* The state when the script has run on a desktop page without reduced
\* motion: no event yet.
ThrottleInit ==
    /\ hWhich \in ScrollHandlers \cup MouseHandlers
    /\ hTicking = FALSE
    /\ hPending = 0
    /\ hMouse = <<0, 0>>
    /\ hScrollY \in 0..MaxScroll
    /\ hNear \in (IF hWhich \in MouseHandlers THEN BOOLEAN ELSE {FALSE})
    /\ hApplied = NoValue
    /\ hLate = FALSE
    /\ hEvent = <<0, 0>>
    /\ hBurst = 0
    /\ hFrameLate = FALSE
    /\ hFrameNear = FALSE

\* No throttled handler is followed.
ThrottleIdle ==
    /\ hWhich = "none"
    /\ hTicking = FALSE
    /\ hPending = 0
    /\ hMouse = <<0, 0>>
    /\ hScrollY = 0
    /\ hNear = FALSE
    /\ hApplied = NoValue
    /\ hLate = FALSE
    /\ hEvent = <<0, 0>>
    /\ hBurst = 0
    /\ hFrameLate = FALSE
    /\ hFrameNear = FALSE

-----------------------------------------------------------------------------
(* innovation.js / optimized script: smooth page load and page transitions *)
(* An href is a sequence of tokens, so that endsWith and startsWith are    *)
(* computed on it.                                                         *)

transVars == <<nReduced, nReady, nPhase, nOpacity, nLoadFired, nLoadRaf, nTimers,
               nNavTo, nClicked, nPrevented>>

\* Link clicks followed on one page.
MaxLinkClicks == 2

NoHref == <<>>

\* The href attributes of the page's links.
LinkHrefs ==
    { <<"about", ".html">>,
      <<"tools/", "index", ".html">>,
      <<"http", "://example.com/", "page", ".html">>,
      <<"mailto", ":a@b", ".html">>,
      <<"notes", ".htm">>,
      <<"#", "top">> }

\* href && href.endsWith('.html') && !href.startsWith('http')
\*      && !href.startsWith('mailto')
HasTransition(href) ==
    /\ href # <<>>
    /\ href[Len(href)] = ".html"
    /\ href[1] # "http"
    /\ href[1] # "mailto"

\* The script runs.  Page load: the body is made transparent and, if the
\* document is already complete, opaque again; the load listener is added.
\* Page transitions: a click listener is added to each link that passes
\* HasTransition.  With reduced motion neither block runs.
TransSetup ==
    /\ nPhase = "page"
    /\ nPhase' = "run"
    /\ nOpacity' = IF nReduced THEN nOpacity
                   ELSE IF nReady THEN "1" ELSE "0"
    /\ UNCHANGED <<nReduced, nReady, nLoadFired, nLoadRaf, nTimers, nNavTo,
                   nClicked, nPrevented>>

\* The window's load event: the listener requests a frame callback.
WindowLoad ==
    /\ nPhase = "run"
    /\ ~nReady
    /\ ~nLoadFired
    /\ nLoadFired' = TRUE
    /\ nLoadRaf' = ~nReduced
    /\ UNCHANGED <<nReduced, nReady, nPhase, nOpacity, nTimers, nNavTo, nClicked,
                   nPrevented>>

\* requestAnimationFrame(() => { document.body.style.opacity = '1'; })
LoadFrame ==
    /\ nPhase = "run"
    /\ nLoadRaf
    /\ nLoadRaf' = FALSE
    /\ nOpacity' = "1"
    /\ UNCHANGED <<nReduced, nReady, nPhase, nLoadFired, nTimers, nNavTo, nClicked,
                   nPrevented>>

\* A click on a link.  With the transition listener: preventDefault, the
\* body is made transparent and a timeout is set for the navigation.
\* Without it the browser starts the navigation to the href.
ClickLink ==
    /\ nPhase = "run"
    /\ Len(nClicked) < MaxLinkClicks
    /\ \E href \in LinkHrefs :
          /\ nClicked' = Append(nClicked, href)
          /\ IF ~nReduced /\ HasTransition(href)
             THEN /\ nPrevented' = "yes"
                  /\ nOpacity' = "0"
                  /\ nTimers' = Append(nTimers, href)
                  /\ UNCHANGED nNavTo
             ELSE /\ nPrevented' = "no"
                  /\ nNavTo' = href
                  /\ UNCHANGED <<nOpacity, nTimers>>
    /\ UNCHANGED <<nReduced, nReady, nPhase, nLoadFired, nLoadRaf>>

\* The oldest timeout fires: window.location.href = href starts a
\* navigation, in place of one that is under way.
NavTimeout ==
    /\ nPhase = "run"
    /\ nTimers # <<>>
    /\ nNavTo' = Head(nTimers)
    /\ nTimers' = Tail(nTimers)
    /\ UNCHANGED <<nReduced, nReady, nPhase, nOpacity, nLoadFired, nLoadRaf,
                   nClicked, nPrevented>>

\* The navigation under way commits: the page is unloaded, and with it its
\* timers and frame callbacks.
NavCommit ==
    /\ nPhase = "run"
    /\ nNavTo # NoHref
    /\ nPhase' = "gone"
    /\ nTimers' = <<>>
    /\ nLoadRaf' = FALSE
    /\ UNCHANGED <<nReduced, nReady, nOpacity, nLoadFired, nNavTo, nClicked,
                   nPrevented>>

\* The page before the script runs.
TransInit ==
    /\ nReduced \in BOOLEAN
    /\ nReady \in BOOLEAN
    /\ nPhase = "page"
    /\ nOpacity = ""
    /\ nLoadFired = nReady
    /\ nLoadRaf = FALSE
    /\ nTimers = <<>>
    /\ nNavTo = NoHref
    /\ nClicked = <<>>
    /\ nPrevented = "none"

\* The page is not part of the specification.
TransIdle ==
    /\ nReduced = FALSE
    /\ nReady = FALSE
    /\ nPhase = "absent"
    /\ nOpacity = ""
    /\ nLoadFired = FALSE
    /\ nLoadRaf = FALSE
    /\ nTimers = <<>>
    /\ nNavTo = NoHref
    /\ nClicked = <<>>
    /\ nPrevented = "none"

-----------------------------------------------------------------------------
(* script.js, lines 83-118: the local preview server.  A relative path is  *)
(* a sequence of tokens, its extension a last token that starts with a     *)
(* dot; the bytes of a file are named by the file.                         *)

serverVars == <<sFiles, sDirs, sBytes, sRequest, sResponse>>

NoBytes == <<"null">>

NoRequest == <<"none">>

NoResponse == [status |-> 0, contentType |-> "", body |-> <<>>, closed |-> 0]

\* The files a server root may hold.
SampleFiles ==
    { <<"index", ".html">>, <<"logo", ".PNG">>, <<"data", ".bin">>, <<"LICENSE">> }

\* The directories a server root may hold.
SampleDirs == { <<"assets">> }

\* $context.Request.Url.LocalPath.TrimStart('/') of the requests.
SampleRequests ==
    SampleFiles \cup SampleDirs
        \cup { <<>>, <<"missing", ".css">>, <<"*", ".html">> }

Extensions == {".html", ".css", ".js", ".png", ".jpg", ".svg", ".json", ".ico",
               ".PNG", ".bin"}

\* [System.IO.Path]::GetExtension($filePath)
GetExtension(path) ==
    IF path # <<>> /\ path[Len(path)] \in Extensions THEN path[Len(path)] ELSE ""

\* .ToLower()
ToLower(ext) == IF ext = ".PNG" THEN ".png" ELSE ext

\* switch ([System.IO.Path]::GetExtension($filePath).ToLower()) { ... }
ContentType(path) ==
    LET ext == ToLower(GetExtension(path))
    IN  CASE ext = ".html" -> "text/html; charset=utf-8"
          [] ext = ".css"  -> "text/css; charset=utf-8"
          [] ext = ".js"   -> "application/javascript; charset=utf-8"
          [] ext = ".png"  -> "image/png"
          [] ext = ".jpg"  -> "image/jpeg"
          [] ext = ".svg"  -> "image/svg+xml"
          [] ext = ".json" -> "application/json"
          [] ext = ".ico"  -> "image/x-icon"
          [] OTHER         -> "application/octet-stream"

\* A path with wildcard characters matches an item name by name.
WildcardMatch(pattern, item) ==
    /\ Len(pattern) = Len(item)
    /\ \A i \in 1..Len(pattern) : pattern[i] = "*" \/ pattern[i] = item[i]

\* Test-Path $filePath: true for a file, for a directory, and for a
\* wildcard pattern that some item matches.
TestPath(path) == \E item \in sFiles \cup sDirs : WildcardMatch(path, item)

\* [System.IO.File]::ReadAllBytes($filePath) returns the bytes of a file
\* and throws for anything else.
ReadThrows(path) == path \notin sFiles

NotFoundBody == <<"404 Not Found">>

\* One turn of the request loop.  An exception thrown by a method call ends
\* its statement only: the assignment to $bytes is skipped, $bytes keeps the
\* value of an earlier request, and the statements after it run; writing
\* $bytes without a value throws again and sends nothing.
ServeRequest ==
    \E request \in SampleRequests :
        LET relPath == IF request = <<>> THEN <<"index", ".html">> ELSE request
            bytes   == IF ReadThrows(relPath) THEN sBytes ELSE relPath
        IN  /\ sRequest' = request
            /\ IF TestPath(relPath)
               THEN /\ sBytes' = bytes
                    /\ sResponse' = [status |-> 200,
                                     contentType |-> ContentType(relPath),
                                     body |-> IF bytes = NoBytes THEN <<>> ELSE bytes,
                                     closed |-> 1]
               ELSE /\ sBytes' = sBytes
                    /\ sResponse' = [status |-> 404, contentType |-> "",
                                     body |-> NotFoundBody, closed |-> 1]
            /\ UNCHANGED <<sFiles, sDirs>>

\* A file is added to or removed from the server root.
EditRoot ==
    /\ sFiles # {}
    /\ \E f \in SampleFiles :
          sFiles' = IF f \in sFiles THEN sFiles \ {f} ELSE sFiles \cup {f}
    /\ UNCHANGED <<sDirs, sBytes, sRequest, sResponse>>

\* The server is started in a root that holds the site.
ServerInit ==
    /\ sFiles \in (SUBSET SampleFiles) \ {{}}
    /\ sDirs \in SUBSET SampleDirs
    /\ sBytes = NoBytes
    /\ sRequest = NoRequest
    /\ sResponse = NoResponse

\* The server is not started.
ServerIdle ==
    /\ sFiles = {}
    /\ sDirs = {}
    /\ sBytes = NoBytes
    /\ sRequest = NoRequest
    /\ sResponse = NoResponse

-----------------------------------------------------------------------------
(* innovation.js / optimized script: cinematic loading screen              *)

loaderVars == <<ldVariant, ldReduced, ldLoader, ldCountdown, ldBar, ldPhase, ldStep,
                ldInterval, ldRemoveTimer, ldRuns, ldShown, ldWidths, ldLoaded>>

\* const nums = ['5', '4', '3', '2', '1'];
nums == <<"5", "4", "3", "2", "1">>

\* A variant whose end is never reached.
AtEndNever(step) == FALSE

\* if (step >= nums.length)
AtEnd(step) == step >= Len(nums)

\* ((step + 1) / nums.length * 100) + '%', as a number of percent
BarWidth(step) == ((step + 1) * 100) \div Len(nums)

\* The original script writes to countdownEl and barFill without testing
\* them; the optimized one tests each.
WriteThrows(present) == ldVariant = "original" /\ ~present

\* The loader block when the script runs: with a loader and without
\* reduced motion the interval is set and the bar is written '20%' (a
\* TypeError in the original script when there is no bar); otherwise a
\* loader is removed at once.
LoaderSetup ==
    /\ ldPhase = "page"
    /\ IF ldLoader = "present" /\ ~ldReduced
       THEN /\ ldInterval' = TRUE
            /\ ldPhase' = IF WriteThrows(ldBar) THEN "threw" ELSE "run"
            /\ ldWidths' = IF ldBar THEN <<20>> ELSE ldWidths
            /\ UNCHANGED ldLoader
       ELSE /\ ldLoader' = IF ldLoader = "present" THEN "removed" ELSE ldLoader
            /\ ldPhase' = "run"
            /\ UNCHANGED <<ldInterval, ldWidths>>
    /\ UNCHANGED <<ldVariant, ldReduced, ldCountdown, ldBar, ldStep, ldRemoveTimer,
                   ldRuns, ldShown, ldLoaded>>

\* The interval callback: step++; below nums.length the countdown and the
\* bar are written (the first write to a missing element ends the callback
\* of the original script); at nums.length the interval is cleared, the
\* class 'loaded' added and the removal scheduled.
LoaderCallback ==
    /\ ldInterval
    /\ LET step == ldStep + 1
       IN  /\ ldStep' = step
           /\ ldRuns' = ldRuns + 1
           /\ IF step < Len(nums)
              THEN /\ ldShown' = IF ldCountdown THEN Append(ldShown, nums[step + 1])
                                 ELSE ldShown
                   /\ ldWidths' = IF ldBar /\ ~WriteThrows(ldCountdown)
                                  THEN Append(ldWidths, BarWidth(step))
                                  ELSE ldWidths
              ELSE UNCHANGED <<ldShown, ldWidths>>
           /\ IF AtEnd(step)
                 /\ ~(step < Len(nums) /\ (WriteThrows(ldCountdown) \/ WriteThrows(ldBar)))
              THEN /\ ldInterval' = FALSE
                   /\ ldLoaded' = ldLoaded + 1
                   /\ ldRemoveTimer' = TRUE
              ELSE UNCHANGED <<ldInterval, ldLoaded, ldRemoveTimer>>
    /\ UNCHANGED <<ldVariant, ldReduced, ldLoader, ldCountdown, ldBar, ldPhase>>

\* setTimeout(() => loaderEl.remove(), 900)
LoaderRemove ==
    /\ ldRemoveTimer
    /\ ldRemoveTimer' = FALSE
    /\ ldLoader' = "removed"
    /\ UNCHANGED <<ldVariant, ldReduced, ldCountdown, ldBar, ldPhase, ldStep,
                   ldInterval, ldRuns, ldShown, ldWidths, ldLoaded>>

\* The page before the script runs.
LoaderInit ==
    /\ ldVariant \in {"original", "optimized"}
    /\ ldReduced \in BOOLEAN
    /\ ldLoader \in {"absent", "present"}
    /\ ldCountdown \in BOOLEAN
    /\ ldBar \in BOOLEAN
    /\ ldPhase = "page"
    /\ ldStep = 0
    /\ ldInterval = FALSE
    /\ ldRemoveTimer = FALSE
    /\ ldRuns = 0
    /\ ldShown = <<>>
    /\ ldWidths = <<>>
    /\ ldLoaded = 0

\* The loading screen is not part of the specification.
LoaderIdle ==
    /\ ldVariant = "original"
    /\ ldReduced = FALSE
    /\ ldLoader = "absent"
    /\ ldCountdown = FALSE
    /\ ldBar = FALSE
    /\ ldPhase = "absent"
    /\ ldStep = 0
    /\ ldInterval = FALSE
    /\ ldRemoveTimer = FALSE
    /\ ldRuns = 0
    /\ ldShown = <<>>
    /\ ldWidths = <<>>
    /\ ldLoaded = 0

-----------------------------------------------------------------------------
(* innovation.js / optimized script: what a stat counter displays          *)

statVars == <<stReduced, stAttr, stSuffix, stPhase, stElapsed, stText>>

\* Longest data-count attribute of the model.
MaxAttrLen == 3

\* Characters of a data-count attribute: digits, a letter, a sign, a space.
AttrChars == {"0", "1", "7", "a", "-", " "}

DigitChars == {"0", "1", "7"}

DigitValue(c) == CASE c = "0" -> 0 [] c = "1" -> 1 [] c = "7" -> 7

AttrValues == UNION {[1..n -> AttrChars] : n \in 0..MaxAttrLen}

\* The element's text in the page, before the script writes to it.
InitialText == <<"html">>

\* Number::toString of an integer: its decimal digits.
RECURSIVE DecimalDigits(_)
DecimalDigits(n) ==
    IF n < 10 THEN <<CASE n = 0 -> "0" [] n = 1 -> "1" [] n = 2 -> "2" [] n = 3 -> "3"
                        [] n = 4 -> "4" [] n = 5 -> "5" [] n = 6 -> "6" [] n = 7 -> "7"
                        [] n = 8 -> "8" [] n = 9 -> "9">>
    ELSE DecimalDigits(n \div 10) \o DecimalDigits(n % 10)

\* A JavaScript number of the model: NaN or an integer (-0 is 0: both
\* print as "0").
NaN == <<>>

\* String(number)
NumberText(num) ==
    IF num = NaN THEN <<"N", "a", "N">>
    ELSE IF num[1] < 0 THEN <<"-">> \o DecimalDigits(-num[1])
    ELSE DecimalDigits(num[1])

\* The string without its leading white space.
RECURSIVE SkipSpace(_)
SkipSpace(s) == IF s # <<>> /\ Head(s) = " " THEN SkipSpace(Tail(s)) ELSE s

\* The value of the longest prefix of digits of s, continuing from acc,
\* and whether a digit was read.
RECURSIVE ReadDigits(_, _, _)
ReadDigits(s, acc, any) ==
    IF s # <<>> /\ Head(s) \in DigitChars
    THEN ReadDigits(Tail(s), 10 * acc + DigitValue(Head(s)), TRUE)
    ELSE IF any THEN <<acc>> ELSE NaN

\* parseInt(str, 10): leading white space is skipped, a sign is read, then
\* the longest run of digits; NaN when there is no digit.
parseInt(str) ==
    LET s    == SkipSpace(str)
        neg  == s # <<>> /\ Head(s) = "-"
        body == IF neg THEN Tail(s) ELSE s
        mag  == ReadDigits(body, 0, FALSE)
    IN  IF mag = NaN THEN NaN
        ELSE IF neg THEN <<-mag[1]>> ELSE mag

\* el.getAttribute('data-suffix') || ''
SuffixOrEmpty(suffix) == IF suffix = Absent THEN <<>> ELSE suffix

\* Math.round(eased * target) + suffix in tick, elapsed time units after
\* the start; NaN stays NaN.
TickText(elapsed, attr, suffix) ==
    LET target  == parseInt(attr)
        current == IF target = NaN THEN NaN ELSE <<Shown(elapsed, target[1])>>
    IN  NumberText(current) \o SuffixOrEmpty(suffix)

\* (el.getAttribute('data-count') || '0') + (el.getAttribute('data-suffix') || '')
ReducedText(attr, suffix) ==
    (IF attr = <<>> THEN <<"0">> ELSE attr) \o SuffixOrEmpty(suffix)

\* The counters block when the script runs: the element is observed, or,
\* with reduced motion, its text is set at once.
StatSetup ==
    /\ stPhase = "page"
    /\ IF ~stReduced
       THEN /\ stPhase' = "observed"
            /\ UNCHANGED stText
       ELSE /\ stPhase' = "set"
            /\ stText' = ReducedText(stAttr, stSuffix)
    /\ UNCHANGED <<stReduced, stAttr, stSuffix, stElapsed>>

\* statObserver's callback for the intersecting element: animateCount(el)
\* requests the first frame and the element is unobserved.
StatStart ==
    /\ stPhase = "observed"
    /\ stPhase' = "running"
    /\ UNCHANGED <<stReduced, stAttr, stSuffix, stElapsed, stText>>

\* tick(now): one frame of the animation.
StatTick ==
    /\ stPhase = "running"
    /\ \E elapsed \in {e \in stElapsed..MaxElapsed : e % 8 = 0} :
          /\ stElapsed' = elapsed
          /\ stText' = TickText(elapsed, stAttr, stSuffix)
          /\ stPhase' = IF ProgressBelowOne(elapsed) THEN "running" ELSE "done"
    /\ UNCHANGED <<stReduced, stAttr, stSuffix>>

\* A page with one '.stat-number[data-count]' element, before the script
\* runs.
StatInit ==
    /\ stReduced \in BOOLEAN
    /\ stAttr \in AttrValues
    /\ stSuffix \in {Absent, <<"+">>}
    /\ stPhase = "page"
    /\ stElapsed = 0
    /\ stText = InitialText

\* The stat text is not part of the specification.
StatIdle ==
    /\ stReduced = FALSE
    /\ stAttr = <<>>
    /\ stSuffix = Absent
    /\ stPhase = "absent"
    /\ stElapsed = 0
    /\ stText = InitialText

-----------------------------------------------------------------------------
(* innovation.js / optimized script: scroll reveal                         *)

revealVars == <<rvReduced, rvGrid, rvStagger, rvPhase, rvObserved, rvActual, rvQueue,
                rvVisible, rvActed>>

\* Elements of the page that match '.section' or a grid selector.
NumRevealEls == 2

RevealEls == 1..NumRevealEls

\* Most entries the browser queues before it invokes the callback.
MaxBatch == 3

\* A variant that keeps every element observed.
StaysObservedAlways(stagger) == TRUE

\* if (!entry.target.classList.contains('reveal-stagger')) observer.unobserve(...)
StaysObserved(stagger) == stagger

\* Some entry of the batch is an intersecting entry of element el.
AnyIntersecting(entries, el) ==
    \E i \in 1..Len(entries) : entries[i].target = el /\ entries[i].isIntersecting

\* The entries that observing the elements from el on queues, in document
\* order.
RECURSIVE FirstEntries(_, _)
FirstEntries(el, actual) ==
    IF el > NumRevealEls THEN <<>>
    ELSE <<[target |-> el, isIntersecting |-> actual[el]]>> \o FirstEntries(el + 1, actual)

\* if (!prefersReducedMotion) revealSections(): the elements get their
\* classes and are observed; observing queues a first entry for each.
RevealSetup ==
    /\ rvPhase = "page"
    /\ rvPhase' = "run"
    /\ IF ~rvReduced
       THEN /\ rvStagger' = rvGrid
            /\ rvObserved' = [el \in RevealEls |-> TRUE]
            /\ rvQueue' = FirstEntries(1, rvActual)
       ELSE UNCHANGED <<rvStagger, rvObserved, rvQueue>>
    /\ UNCHANGED <<rvReduced, rvGrid, rvActual, rvVisible, rvActed>>

\* Scrolling moves an element across the threshold; for an observed
\* element the browser queues an entry.
RevealScroll ==
    /\ rvPhase = "run"
    /\ \E el \in RevealEls :
          /\ rvObserved[el] => Len(rvQueue) < MaxBatch
          /\ rvActual' = [rvActual EXCEPT ![el] = ~rvActual[el]]
          /\ rvQueue' = IF rvObserved[el]
                        THEN Append(rvQueue, [target |-> el, isIntersecting |-> ~rvActual[el]])
                        ELSE rvQueue
    /\ UNCHANGED <<rvReduced, rvGrid, rvStagger, rvPhase, rvObserved, rvVisible, rvActed>>

\* The observer callback with all queued entries: each intersecting entry
\* adds 'is-visible' to its target and unobserves a target without
\* 'reveal-stagger'.
RevealCallback ==
    /\ rvQueue # <<>>
    /\ rvQueue' = <<>>
    /\ rvVisible' = [el \in RevealEls |-> rvVisible[el] \/ AnyIntersecting(rvQueue, el)]
    /\ rvObserved' = [el \in RevealEls |->
                         IF AnyIntersecting(rvQueue, el)
                         THEN rvObserved[el] /\ StaysObserved(rvStagger[el])
                         ELSE rvObserved[el]]
    /\ rvActed' = [el \in RevealEls |->
                      IF AnyIntersecting(rvQueue, el) THEN Min(rvActed[el] + 1, 2)
                      ELSE rvActed[el]]
    /\ UNCHANGED <<rvReduced, rvGrid, rvStagger, rvPhase, rvActual>>

\* The '.section' and grid elements of the page, before the script runs.
RevealInit ==
    /\ rvReduced \in BOOLEAN
    /\ rvGrid \in [RevealEls -> BOOLEAN]
    /\ rvStagger = [el \in RevealEls |-> FALSE]
    /\ rvPhase = "page"
    /\ rvObserved = [el \in RevealEls |-> FALSE]
    /\ rvActual \in [RevealEls -> BOOLEAN]
    /\ rvQueue = <<>>
    /\ rvVisible = [el \in RevealEls |-> FALSE]
    /\ rvActed = [el \in RevealEls |-> 0]

\* The scroll reveal is not part of the specification.
RevealIdle ==
    /\ rvReduced = FALSE
    /\ rvGrid = <<>>
    /\ rvStagger = <<>>
    /\ rvPhase = "absent"
    /\ rvObserved = <<>>
    /\ rvActual = <<>>
    /\ rvQueue = <<>>
    /\ rvVisible = <<>>
    /\ rvActed = <<>>

-----------------------------------------------------------------------------
(* innovation.js / optimized script: typewriter effect                     *)

typeVars == <<twReduced, twEl, twText, twPhase, twI, twTypeTimer, twDoneTimer, twShown,
              twLengths, twRuns, twTimers, twDone>>

\* Longest data-typewriter text of the model.
MaxTypeLen == 3

TypeTexts == UNION {[1..n -> {"a", "b"}] : n \in 0..MaxTypeLen}

\* The element's text in the page, before the script writes to it.
NotWritten == <<"html">>

\* A variant that stops one character early.
StillTypingStrict(i, text) == i < Len(text)

\* if (i <= text.length)
StillTyping(i, text) == i <= Len(text)

\* text.slice(0, i) for 0 <= i
Slice(text, i) == SubSeq(text, 1, Min(i, Len(text)))

\* type(): while i <= text.length the slice is written, i incremented and
\* another type timeout set; otherwise the timeout that adds 'done' is set.
TypeCall ==
    /\ twRuns' = twRuns + 1
    /\ twTimers' = twTimers + 1
    /\ IF StillTyping(twI, twText)
       THEN /\ twShown' = Slice(twText, twI)
            /\ twLengths' = Append(twLengths, Len(Slice(twText, twI)))
            /\ twI' = twI + 1
            /\ twTypeTimer' = TRUE
            /\ UNCHANGED twDoneTimer
       ELSE /\ twDoneTimer' = TRUE
            /\ twTypeTimer' = FALSE
            /\ UNCHANGED <<twShown, twLengths, twI>>
    /\ UNCHANGED twDone

\* The typewriter block when the script runs: with reduced motion the full
\* text and 'done' are set, otherwise type() is called.
TypewriterSetup ==
    /\ twPhase = "page"
    /\ twPhase' = "run"
    /\ IF ~twEl
       THEN UNCHANGED <<twI, twTypeTimer, twDoneTimer, twShown, twLengths, twRuns,
                        twTimers, twDone>>
       ELSE IF twReduced
       THEN /\ twShown' = twText
            /\ twLengths' = Append(twLengths, Len(twText))
            /\ twDone' = twDone + 1
            /\ UNCHANGED <<twI, twTypeTimer, twDoneTimer, twRuns, twTimers>>
       ELSE TypeCall
    /\ UNCHANGED <<twReduced, twEl, twText>>

\* A type timeout fires.
TypeTimeout ==
    /\ twTypeTimer
    /\ TypeCall
    /\ UNCHANGED <<twReduced, twEl, twText, twPhase>>

\* setTimeout(() => twEl.classList.add('done'), 2000) fires.
DoneTimeout ==
    /\ twDoneTimer
    /\ twDoneTimer' = FALSE
    /\ twDone' = twDone + 1
    /\ UNCHANGED <<twReduced, twEl, twText, twPhase, twI, twTypeTimer, twShown,
                   twLengths, twRuns, twTimers>>

\* The page before the script runs; a missing element has no text.
TypewriterInit ==
    /\ twReduced \in BOOLEAN
    /\ twEl \in BOOLEAN
    /\ twText \in TypeTexts
    /\ twEl \/ twText = <<>>
    /\ twPhase = "page"
    /\ twI = 0
    /\ twTypeTimer = FALSE
    /\ twDoneTimer = FALSE
    /\ twShown = NotWritten
    /\ twLengths = <<>>
    /\ twRuns = 0
    /\ twTimers = 0
    /\ twDone = 0

\* The typewriter is not part of the specification.
TypewriterIdle ==
    /\ twReduced = FALSE
    /\ twEl = FALSE
    /\ twText = <<>>
    /\ twPhase = "absent"
    /\ twI = 0
    /\ twTypeTimer = FALSE
    /\ twDoneTimer = FALSE
    /\ twShown = NotWritten
    /\ twLengths = <<>>
    /\ twRuns = 0
    /\ twTimers = 0
    /\ twDone = 0

-----------------------------------------------------------------------------
(* optimized script: one-shot start of the counters and highlight numbers   *)

animVars == <<anKind, anReduced, anTarget, anPhase, anObserved, anActual, anQueue,
              anStarts, anLoops, anElapsed, anText, anReached>>

\* const dur = 1200, in the time unit of duration.
dur == 12

\* The duration of the animation of a stat counter or a highlight number.
DurationOf(kind) == IF kind = "stat" THEN duration ELSE dur

\* Math.round((1 - Math.pow(1 - Math.min(elapsed / d, 1), 3)) * target)
ShownAt(elapsed, target, d) ==
    LET e  == Min(elapsed, d)
        d3 == d * d * d
        r  == d - e
    IN  RoundDiv(target * (d3 - r * r * r), d3)

\* The entries of the batch that pass if (entry.isIntersecting).
IntersectingEntries(entries) == {i \in 1..Len(entries) : entries[i]}

\* entries.forEach(entry => { if (entry.isIntersecting) { start the
\* animation; unobserve } }): animations started by one callback.
StartsFor(entries) == Cardinality(IntersectingEntries(entries))

\* The block of the element when the script runs: with reduced motion the
\* final text is written, otherwise the element is observed, which queues
\* a first entry.
AnimSetup ==
    /\ anPhase = "page"
    /\ anPhase' = "run"
    /\ IF anReduced
       THEN /\ anText' = anTarget
            /\ anReached' = TRUE
            /\ UNCHANGED <<anObserved, anQueue>>
       ELSE /\ anObserved' = TRUE
            /\ anQueue' = <<anActual>>
            /\ UNCHANGED <<anText, anReached>>
    /\ UNCHANGED <<anKind, anReduced, anTarget, anActual, anStarts, anLoops, anElapsed>>

\* Scrolling moves the element across the threshold; for an observed
\* element the browser queues an entry.
AnimScroll ==
    /\ anPhase = "run"
    /\ anObserved => Len(anQueue) < MaxBatch
    /\ anActual' = ~anActual
    /\ anQueue' = IF anObserved THEN Append(anQueue, ~anActual) ELSE anQueue
    /\ UNCHANGED <<anKind, anReduced, anTarget, anPhase, anObserved, anStarts, anLoops,
                   anElapsed, anText, anReached>>

\* The observer callback with all queued entries of the element: each
\* intersecting entry takes the start time, requests a first tick and
\* unobserves the element.
AnimCallback ==
    /\ anQueue # <<>>
    /\ anQueue' = <<>>
    /\ IF StartsFor(anQueue) > 0
       THEN /\ anStarts' = anStarts + StartsFor(anQueue)
            /\ anLoops' = anLoops + StartsFor(anQueue)
            /\ anElapsed' = 0
            /\ anObserved' = FALSE
       ELSE UNCHANGED <<anStarts, anLoops, anElapsed, anObserved>>
    /\ UNCHANGED <<anKind, anReduced, anTarget, anPhase, anActual, anText, anReached>>

\* One animation frame: every requested tick runs with the frame's
\* timestamp, writes the number and requests itself again below the full
\* duration.
AnimFrame ==
    /\ anLoops > 0
    /\ \E elapsed \in {e \in anElapsed..MaxElapsed : e % 4 = 0} :
          /\ anElapsed' = elapsed
          /\ anText' = ShownAt(elapsed, anTarget, DurationOf(anKind))
          /\ anReached' = (anReached \/ ShownAt(elapsed, anTarget, DurationOf(anKind)) = anTarget)
          /\ anLoops' = IF elapsed < DurationOf(anKind) THEN anLoops ELSE 0
    /\ UNCHANGED <<anKind, anReduced, anTarget, anPhase, anObserved, anActual, anQueue,
                   anStarts>>

\* A stat counter or a highlight number of the page, before the script
\* runs.
AnimInit ==
    /\ anKind \in {"stat", "number"}
    /\ anReduced \in BOOLEAN
    /\ anTarget \in 1..MaxTarget
    /\ anPhase = "page"
    /\ anObserved = FALSE
    /\ anActual \in BOOLEAN
    /\ anQueue = <<>>
    /\ anStarts = 0
    /\ anLoops = 0
    /\ anElapsed = 0
    /\ anText = NoText
    /\ anReached = FALSE

\* The animation start is not part of the specification.
AnimIdle ==
    /\ anKind = "stat"
    /\ anReduced = FALSE
    /\ anTarget = 0
    /\ anPhase = "absent"
    /\ anObserved = FALSE
    /\ anActual = FALSE
    /\ anQueue = <<>>
    /\ anStarts = 0
    /\ anLoops = 0
    /\ anElapsed = 0
    /\ anText = NoText
    /\ anReached = FALSE

-----------------------------------------------------------------------------
(* Specifications                                                          *)

vars == <<navVars, formVars, counterVars, filmVars, partVars, effVars, toggleVars, loopVars, throttleVars, transVars, serverVars, loaderVars, statVars, revealVars, typeVars, animVars>>

\* The variables outside each subsystem.
notNav     == <<formVars, counterVars, filmVars, partVars, effVars, toggleVars, loopVars, throttleVars, transVars, serverVars, loaderVars, statVars, revealVars, typeVars, animVars>>

notForm    == <<navVars, counterVars, filmVars, partVars, effVars, toggleVars, loopVars, throttleVars, transVars, serverVars, loaderVars, statVars, revealVars, typeVars, animVars>>

notCounter == <<navVars, formVars, filmVars, partVars, effVars, toggleVars, loopVars, throttleVars, transVars, serverVars, loaderVars, statVars, revealVars, typeVars, animVars>>

notFilm    == <<navVars, formVars, counterVars, partVars, effVars, toggleVars, loopVars, throttleVars, transVars, serverVars, loaderVars, statVars, revealVars, typeVars, animVars>>

notPart    == <<navVars, formVars, counterVars, filmVars, effVars, toggleVars, loopVars, throttleVars, transVars, serverVars, loaderVars, statVars, revealVars, typeVars, animVars>>

InitNav == NavInit /\ FormIdle /\ CounterIdle /\ FilmIdle /\ PartIdle /\ EffectsIdle /\ ToggleIdle /\ LoopsIdle /\ ThrottleIdle /\ TransIdle /\ ServerIdle /\ LoaderIdle /\ StatIdle /\ RevealIdle /\ TypewriterIdle /\ AnimIdle

NavNext == setActiveNav /\ UNCHANGED notNav

SpecNav == InitNav /\ [][NavNext]_vars

InitForm == FormInit /\ NavIdle /\ CounterIdle /\ FilmIdle /\ PartIdle /\ EffectsIdle /\ ToggleIdle /\ LoopsIdle /\ ThrottleIdle /\ TransIdle /\ ServerIdle /\ LoaderIdle /\ StatIdle /\ RevealIdle /\ TypewriterIdle /\ AnimIdle

FormNext ==
    \/ SubmitForm /\ UNCHANGED notForm
    \/ EditField /\ UNCHANGED notForm

SpecForm == InitForm /\ [][FormNext]_vars

InitCounter == CounterInit /\ NavIdle /\ FormIdle /\ FilmIdle /\ PartIdle /\ EffectsIdle /\ ToggleIdle /\ LoopsIdle /\ ThrottleIdle /\ TransIdle /\ ServerIdle /\ LoaderIdle /\ StatIdle /\ RevealIdle /\ TypewriterIdle /\ AnimIdle

CounterNext ==
    \/ StartCount /\ UNCHANGED notCounter
    \/ CountTick /\ UNCHANGED notCounter

SpecCounter == InitCounter /\ [][CounterNext]_vars

InitFilm == FilmInit /\ NavIdle /\ FormIdle /\ CounterIdle /\ PartIdle /\ EffectsIdle /\ ToggleIdle /\ LoopsIdle /\ ThrottleIdle /\ TransIdle /\ ServerIdle /\ LoaderIdle /\ StatIdle /\ RevealIdle /\ TypewriterIdle /\ AnimIdle

FilmNext ==
    \/ FilmSetup /\ UNCHANGED notFilm
    \/ FilmMouseEnter /\ UNCHANGED notFilm
    \/ FilmMouseLeave /\ UNCHANGED notFilm
    \/ FilmIntersect /\ UNCHANGED notFilm
    \/ FilmObserved /\ UNCHANGED notFilm
    \/ FilmTick /\ UNCHANGED notFilm
    \/ FilmLayout /\ UNCHANGED notFilm

SpecFilm == InitFilm /\ [][FilmNext]_vars

InitPart == PartInit /\ NavIdle /\ FormIdle /\ CounterIdle /\ FilmIdle /\ EffectsIdle /\ ToggleIdle /\ LoopsIdle /\ ThrottleIdle /\ TransIdle /\ ServerIdle /\ LoaderIdle /\ StatIdle /\ RevealIdle /\ TypewriterIdle /\ AnimIdle

PartNext ==
    \/ PartSetup /\ UNCHANGED notPart
    \/ PartMouseMove /\ UNCHANGED notPart
    \/ PartMouseLeave /\ UNCHANGED notPart
    \/ PartObserved /\ UNCHANGED notPart
    \/ PartFrame /\ UNCHANGED notPart
    \/ PartResizeEvent /\ UNCHANGED notPart
    \/ PartResizeTimer /\ UNCHANGED notPart

SpecPart == InitPart /\ [][PartNext]_vars

notEff     == <<navVars, formVars, counterVars, filmVars, partVars, toggleVars, loopVars, throttleVars, transVars, serverVars, loaderVars, statVars, revealVars, typeVars, animVars>>

OthersIdle == NavIdle /\ FormIdle /\ CounterIdle /\ FilmIdle /\ PartIdle /\ ToggleIdle /\ LoopsIdle /\ ThrottleIdle /\ TransIdle /\ ServerIdle /\ LoaderIdle /\ StatIdle /\ RevealIdle /\ TypewriterIdle /\ AnimIdle

InitEffects == EffectsInit /\ OthersIdle /\ ToggleIdle /\ LoopsIdle /\ ThrottleIdle /\ TransIdle /\ ServerIdle /\ LoaderIdle /\ StatIdle /\ RevealIdle /\ TypewriterIdle /\ AnimIdle

EffectsNext == RunScript /\ UNCHANGED notEff

SpecEffects == InitEffects /\ [][EffectsNext]_vars

InitWrites == FullPageInit /\ OthersIdle /\ ToggleIdle /\ LoopsIdle /\ ThrottleIdle /\ TransIdle /\ ServerIdle /\ LoaderIdle /\ StatIdle /\ RevealIdle /\ TypewriterIdle /\ AnimIdle

WritesNext ==
    \/ RunScript /\ UNCHANGED notEff
    \/ RunCallback /\ UNCHANGED notEff

SpecWrites == InitWrites /\ [][WritesNext]_vars

notToggle  == <<navVars, formVars, counterVars, filmVars, partVars, effVars, loopVars, throttleVars, transVars, serverVars, loaderVars, statVars, revealVars, typeVars, animVars>>

InitToggle == ToggleInit /\ NavIdle /\ FormIdle /\ CounterIdle /\ FilmIdle /\ PartIdle /\ EffectsIdle /\ LoopsIdle /\ ThrottleIdle /\ TransIdle /\ ServerIdle /\ LoaderIdle /\ StatIdle /\ RevealIdle /\ TypewriterIdle /\ AnimIdle

ToggleNext ==
    \/ ToggleClick /\ UNCHANGED notToggle
    \/ PanelClick /\ UNCHANGED notToggle

SpecToggle == InitToggle /\ [][ToggleNext]_vars

notLoops   == <<navVars, formVars, counterVars, filmVars, partVars, effVars, toggleVars, throttleVars, transVars, serverVars, loaderVars, statVars, revealVars, typeVars, animVars>>

InitLoops == LoopsInit /\ NavIdle /\ FormIdle /\ CounterIdle /\ FilmIdle /\ PartIdle /\ EffectsIdle /\ ToggleIdle /\ ThrottleIdle /\ TransIdle /\ ServerIdle /\ LoaderIdle /\ StatIdle /\ RevealIdle /\ TypewriterIdle /\ AnimIdle

LoopsNext ==
    \/ LoaderInterval /\ UNCHANGED notLoops
    \/ AnimateCursor /\ UNCHANGED notLoops
    \/ CursorMouseLeaveEnter /\ UNCHANGED notLoops
    \/ ParticleLoop /\ UNCHANGED notLoops
    \/ CanvasObserved /\ UNCHANGED notLoops
    \/ TypeStep /\ UNCHANGED notLoops
    \/ CounterObserved /\ UNCHANGED notLoops
    \/ CounterFrame /\ UNCHANGED notLoops
    \/ StripObserved /\ UNCHANGED notLoops
    \/ StripTick /\ UNCHANGED notLoops

SpecLoops == InitLoops /\ [][LoopsNext]_vars

notThrottle == <<navVars, formVars, counterVars, filmVars, partVars, effVars, toggleVars, loopVars, transVars, serverVars, loaderVars, statVars, revealVars, typeVars, animVars>>

InitThrottle == ThrottleInit /\ NavIdle /\ FormIdle /\ CounterIdle /\ FilmIdle /\ PartIdle /\ EffectsIdle /\ ToggleIdle /\ LoopsIdle /\ TransIdle /\ ServerIdle /\ LoaderIdle /\ StatIdle /\ RevealIdle /\ TypewriterIdle /\ AnimIdle

ThrottleNext ==
    \/ MouseMove /\ UNCHANGED notThrottle
    \/ Scroll /\ UNCHANGED notThrottle
    \/ ThrottledFrame /\ UNCHANGED notThrottle

SpecThrottle == InitThrottle /\ [][ThrottleNext]_vars

\* The browser runs a requested frame callback at its next frame.
SpecThrottleFair == SpecThrottle /\ WF_vars(ThrottledFrame /\ UNCHANGED notThrottle)

notTrans   == <<navVars, formVars, counterVars, filmVars, partVars, effVars, toggleVars, loopVars, throttleVars, serverVars, loaderVars, statVars, revealVars, typeVars, animVars>>

InitTrans == TransInit /\ NavIdle /\ FormIdle /\ CounterIdle /\ FilmIdle /\ PartIdle /\ EffectsIdle /\ ToggleIdle /\ LoopsIdle /\ ThrottleIdle /\ ServerIdle /\ LoaderIdle /\ StatIdle /\ RevealIdle /\ TypewriterIdle /\ AnimIdle

TransNext ==
    \/ TransSetup /\ UNCHANGED notTrans
    \/ WindowLoad /\ UNCHANGED notTrans
    \/ LoadFrame /\ UNCHANGED notTrans
    \/ ClickLink /\ UNCHANGED notTrans
    \/ NavTimeout /\ UNCHANGED notTrans
    \/ NavCommit /\ UNCHANGED notTrans

SpecTrans == InitTrans /\ [][TransNext]_vars

\* A pending timeout fires and a navigation under way commits.
SpecTransFair ==
    /\ SpecTrans
    /\ WF_vars(NavTimeout /\ UNCHANGED notTrans)
    /\ WF_vars(NavCommit /\ UNCHANGED notTrans)

notServer  == <<navVars, formVars, counterVars, filmVars, partVars, effVars, toggleVars, loopVars, throttleVars, transVars, loaderVars, statVars, revealVars, typeVars, animVars>>

InitServer == ServerInit /\ NavIdle /\ FormIdle /\ CounterIdle /\ FilmIdle /\ PartIdle /\ EffectsIdle /\ ToggleIdle /\ LoopsIdle /\ ThrottleIdle /\ TransIdle /\ LoaderIdle /\ StatIdle /\ RevealIdle /\ TypewriterIdle /\ AnimIdle

ServerNext ==
    \/ ServeRequest /\ UNCHANGED notServer
    \/ EditRoot /\ UNCHANGED notServer

SpecServer == InitServer /\ [][ServerNext]_vars

notLoader  == <<navVars, formVars, counterVars, filmVars, partVars, effVars, toggleVars, loopVars, throttleVars, transVars, serverVars, statVars, revealVars, typeVars, animVars>>

InitLoader == LoaderInit /\ NavIdle /\ FormIdle /\ CounterIdle /\ FilmIdle /\ PartIdle /\ EffectsIdle /\ ToggleIdle /\ LoopsIdle /\ ThrottleIdle /\ TransIdle /\ ServerIdle /\ StatIdle /\ RevealIdle /\ TypewriterIdle /\ AnimIdle

LoaderNext ==
    \/ LoaderSetup /\ UNCHANGED notLoader
    \/ LoaderCallback /\ UNCHANGED notLoader
    \/ LoaderRemove /\ UNCHANGED notLoader

SpecLoader == InitLoader /\ [][LoaderNext]_vars

\* The script runs, a set interval fires and a set timeout fires.
SpecLoaderFair ==
    /\ SpecLoader
    /\ WF_vars(LoaderSetup /\ UNCHANGED notLoader)
    /\ WF_vars(LoaderCallback /\ UNCHANGED notLoader)
    /\ WF_vars(LoaderRemove /\ UNCHANGED notLoader)

notStat    == <<navVars, formVars, counterVars, filmVars, partVars, effVars, toggleVars, loopVars, throttleVars, transVars, serverVars, loaderVars, revealVars, typeVars, animVars>>

InitStat   == StatInit /\ NavIdle /\ FormIdle /\ CounterIdle /\ FilmIdle /\ PartIdle /\ EffectsIdle /\ ToggleIdle /\ LoopsIdle /\ ThrottleIdle /\ TransIdle /\ ServerIdle /\ LoaderIdle /\ RevealIdle /\ TypewriterIdle /\ AnimIdle

StatNext ==
    \/ StatSetup /\ UNCHANGED notStat
    \/ StatStart /\ UNCHANGED notStat
    \/ StatTick /\ UNCHANGED notStat

SpecStat == InitStat /\ [][StatNext]_vars

notReveal  == <<navVars, formVars, counterVars, filmVars, partVars, effVars, toggleVars, loopVars, throttleVars, transVars, serverVars, loaderVars, statVars, typeVars, animVars>>

InitReveal == RevealInit /\ NavIdle /\ FormIdle /\ CounterIdle /\ FilmIdle /\ PartIdle /\ EffectsIdle /\ ToggleIdle /\ LoopsIdle /\ ThrottleIdle /\ TransIdle /\ ServerIdle /\ LoaderIdle /\ StatIdle /\ TypewriterIdle /\ AnimIdle

RevealNext ==
    \/ RevealSetup /\ UNCHANGED notReveal
    \/ RevealScroll /\ UNCHANGED notReveal
    \/ RevealCallback /\ UNCHANGED notReveal

SpecReveal == InitReveal /\ [][RevealNext]_vars

notType    == <<navVars, formVars, counterVars, filmVars, partVars, effVars, toggleVars, loopVars, throttleVars, transVars, serverVars, loaderVars, statVars, revealVars, animVars>>

InitType   == TypewriterInit /\ NavIdle /\ FormIdle /\ CounterIdle /\ FilmIdle /\ PartIdle /\ EffectsIdle /\ ToggleIdle /\ LoopsIdle /\ ThrottleIdle /\ TransIdle /\ ServerIdle /\ LoaderIdle /\ StatIdle /\ RevealIdle /\ AnimIdle

TypeNext ==
    \/ TypewriterSetup /\ UNCHANGED notType
    \/ TypeTimeout /\ UNCHANGED notType
    \/ DoneTimeout /\ UNCHANGED notType

SpecType == InitType /\ [][TypeNext]_vars

\* The script runs and set timeouts fire.
SpecTypeFair ==
    /\ SpecType
    /\ WF_vars(TypewriterSetup /\ UNCHANGED notType)
    /\ WF_vars(TypeTimeout /\ UNCHANGED notType)
    /\ WF_vars(DoneTimeout /\ UNCHANGED notType)

notAnim    == <<navVars, formVars, counterVars, filmVars, partVars, effVars, toggleVars, loopVars, throttleVars, transVars, serverVars, loaderVars, statVars, revealVars, typeVars>>

InitAnim   == AnimInit /\ NavIdle /\ FormIdle /\ CounterIdle /\ FilmIdle /\ PartIdle /\ EffectsIdle /\ ToggleIdle /\ LoopsIdle /\ ThrottleIdle /\ TransIdle /\ ServerIdle /\ LoaderIdle /\ StatIdle /\ RevealIdle /\ TypewriterIdle

AnimNext ==
    \/ AnimSetup /\ UNCHANGED notAnim
    \/ AnimScroll /\ UNCHANGED notAnim
    \/ AnimCallback /\ UNCHANGED notAnim
    \/ AnimFrame /\ UNCHANGED notAnim

SpecAnim == InitAnim /\ [][AnimNext]_vars

-----------------------------------------------------------------------------
(* Properties                                                              *)

\* The last path segment of a path: its last run of tokens other than '/',
\* and index.html for a path that has none.
LastSegment(path) ==
    IF \A i \in 1..Len(path) : path[i] = "/"
    THEN <<"index.html">>
    ELSE LET e == CHOOSE i \in 1..Len(path) :
                      path[i] # "/" /\ \A j \in (i + 1)..Len(path) : path[j] = "/"
             b == CHOOSE i \in 1..e :
                      /\ \A j \in i..e : path[j] # "/"
                      /\ i > 1 => path[i - 1] = "/"
         IN  SubSeq(path, b, e)

\* C1: once the navigation script has run, a link whose href resolves carries
\* the class is-active and aria-current="page" exactly when the last path
\* segment of its resolved href is the last path segment of the page's path
\* (index.html for an empty path); every other link carries neither.
C1_ActiveIffSameLastSegment ==
    navDone =>
        \A l \in Links :
            LET url == URLPathname(links[l].href, pathname)
            IN  url.ok =>
                  /\ links[l].isActive <=>
                        (LastSegment(url.pathname) = LastSegment(pathname))
                  /\ links[l].ariaCurrent <=> links[l].isActive

\* C1 happens: a link given as a relative path with '..' is marked, another
\* one lost the marker the markup gave it.
C1_Witness ==
    /\ navDone
    /\ \E l \in Links : links[l].isActive /\ links[l].ariaCurrent
                        /\ links[l].href = <<"..", "/", "platform.html">>
    /\ \E l \in Links : ~links[l].isActive /\ ~links[l].ariaCurrent
                        /\ links[l].href = <<"index.html">>

\* A value that is empty or made of white space only.
Blank(v) == \A i \in 1..Len(v) : v[i] = " "

\* At least one required field has no element or a blank value.
SomeFieldBlank(fs) == \E f \in Fields : fs[f] = Absent \/ Blank(fs[f])

\* C2: after a submit with a required field empty, whitespace-only or without
\* element, the status text is the validation message and every field has the
\* value it had before the submit.
C2_InvalidSubmitKeepsForm ==
    (formEvent = "submit" /\ SomeFieldBlank(submitBefore)) =>
        /\ statusText = ValidationMsg
        /\ fields = submitBefore

\* C2 happens: a submit was refused with a whitespace-only field, another
\* field filled in and kept.
C2_Witness ==
    /\ formEvent = "submit"
    /\ statusText = ValidationMsg
    /\ \E f \in Fields : fields[f] # Absent /\ fields[f] # <<>> /\ Blank(fields[f])
    /\ \E f \in Fields : fields[f] # Absent /\ ~Blank(fields[f])

\* C3: after a submit with all five fields non-empty once trimmed, the status
\* text is the success message and all fields are empty, whatever the status
\* text was before.
C3_ValidSubmitClearsForm ==
    (formEvent = "submit" /\ ~SomeFieldBlank(submitBefore)) =>
        /\ statusText = SuccessMsg
        /\ \A f \in Fields : fields[f] = <<>>

\* C3 happens: a successful submit right after a refused one.
C3_Witness ==
    /\ formEvent = "submit"
    /\ ~SomeFieldBlank(submitBefore)
    /\ statusBefore = ValidationMsg
    /\ statusText = SuccessMsg

\* The step named x is in trace and no step named y comes before it.
RunsBefore(trace, x, y) ==
    \E i \in 1..Len(trace) :
        trace[i] = x /\ \A j \in 1..(i - 1) : trace[j] # y

\* C4: every handled submit event has its default action cancelled before the
\* validation, on the failure path and on the success path, and no form data
\* has been sent after any sequence of submits.
C4_SubmitCancelledNothingSent ==
    /\ requests = <<>>
    /\ formEvent = "submit" => RunsBefore(handlerTrace, "preventDefault", "validate")

\* C4 happens: a refused submit following a successful one.
C4_Witness ==
    /\ formEvent = "submit"
    /\ statusBefore = SuccessMsg
    /\ statusText = ValidationMsg
    /\ Ran(handlerTrace, "validate")

\* The first part of C5, which the code keeps: the numbers shown never
\* decrease and stay within [0, T], and the number shown when the animation
\* has ended is T.
CounterMonotoneToTarget ==
    /\ cText # NoText => (0 <= cText /\ cText <= cTarget)
    /\ cPrev # NoText => cPrev <= cText
    /\ cPhase = "done" => cText = cTarget

\* C5 as stated: ... and once T is shown no further frame is requested and
\* the element is marked 'counted'.
C5_Original ==
    /\ CounterMonotoneToTarget
    /\ (cText # NoText /\ cText = cTarget) => (~cRaf /\ cCounted)

\* C5 as amended: for frame timestamps that never decrease and are not before
\* the start, the numbers shown never decrease, stay within [0, T] and end on
\* T; the animation lasts the whole duration: the first frame at least
\* 1600 ms after the start shows T, requests no further frame and marks the
\* element 'counted', and every earlier frame requests another frame, also
\* when it already shows T.
C5_CounterEndsAtDuration ==
    /\ CounterMonotoneToTarget
    /\ cPhase = "done" => (~cRaf /\ cCounted /\ cNow - cStart >= duration)
    /\ cPhase = "running" => (cRaf /\ ~cCounted)
    /\ (cPhase = "running" /\ cFrames > 0) => cNow - cStart < duration

\* C5 happens: a counter reached its target from a smaller number and stopped.
C5_Witness ==
    /\ cPhase = "done"
    /\ cTarget >= 3
    /\ cText = cTarget
    /\ cPrev # NoText /\ cPrev < cText
    /\ cCounted /\ ~cRaf

\* C6: every value written to scrollLeft lies in [0, maximum), the maximum
\* being scrollWidth - clientWidth in the frame of the write, and a frame in
\* which the advanced offset reaches or exceeds the maximum writes zero.
C6_ScrollLeftWraps ==
    fLastWrite # NoWrite =>
        /\ 0 <= fLastWrite.value
        /\ fLastWrite.value < fLastWrite.limit
        /\ fLastWrite.advanced >= fLastWrite.limit => fLastWrite.value = 0
        /\ fLastWrite.advanced < fLastWrite.limit =>
              fLastWrite.value = fLastWrite.advanced

\* C6 happens: the offset advanced up to a maximum of more than one pixel
\* and was written as zero.
C6_Witness ==
    /\ fLastWrite # NoWrite
    /\ fLastWrite.limit > 2
    /\ fLastWrite.advanced = fLastWrite.limit
    /\ fLastWrite.value = 0

\* C9: with the reduced-motion preference set no effect, the filmstrip
\* auto-scroll included, starts a repeating animation-frame loop.
C9_NoLoopUnderReducedMotion == fReduced => fTicks = 0

\* C7: whenever the particle exists, after creation, after every update with
\* or without repulsion and after every resize, 0 <= x <= w and 0 <= y <= h
\* for the stored w and h.
C7_ParticleInsideCanvas ==
    pPhase = "running" =>
        /\ 0 <= pParticle.x /\ pParticle.x <= 2 * pW
        /\ 0 <= pParticle.y /\ pParticle.y <= 2 * pH

\* C7 happens: a repelled particle ran into the right edge, was put back on
\* it and turned around.
C7_Witness ==
    /\ pPhase = "running"
    /\ pW > 0
    /\ pParticle.x = 2 * pW
    /\ pParticle.vx < 0
    /\ pMouseX > 0

\* The effects of the script that have what they need on the page.
ExpectedActive ==
    {Blocks(eScript)[i] : i \in 1..Len(Blocks(eScript))} \cap
    {e \in {Blocks(eScript)[i] : i \in 1..Len(Blocks(eScript))} :
        Starts(eScript, e, eDom, eReduced, eWide, eTouch)}

\* C8: whatever elements are absent from the page, each script runs to its
\* end without throwing, and exactly the effects whose elements are present
\* (and whose feature checks pass) are initialized.
C8_MissingElementsAreSkipped ==
    ePhase # "page" =>
        /\ ePhase = "done"
        /\ eActive = ExpectedActive

\* C10: no property is written by more than one effect.
C10_OneWriterPerProperty ==
    \A r \in AllResources : Cardinality(WritersOf(r)) <= 1


\* C11: while both the toggle button and the panel exist, a panel that was
\* hidden when the clicks were counted from 0 (page load, or a link click
\* that closed it) is shown exactly when the number of toggle clicks since
\* is odd, and aria-expanded tells the same after every toggle click; when
\* either element is missing no click changes the panel or the attribute.
C11_ToggleFlipsPanel ==
    /\ [](ToggleInstalled =>
            /\ ~tStartOpen => (tOpen <=> tClicks % 2 = 1)
            /\ tStartOpen => (tOpen <=> tClicks % 2 = 0)
            /\ tLast = "toggle" => tAria = BoolString(tOpen))
    /\ [][~ToggleInstalled => (tOpen' = tOpen /\ tAria' = tAria)]_vars

\* C11 witness: three toggle clicks from hidden, the panel is shown.
C11_Witness ==
    /\ ToggleInstalled /\ ~tStartOpen
    /\ tClicks = 3 /\ tLast = "toggle"
    /\ tOpen /\ tAria = "true"

\* The effects the optimized script switches off on mobile.
MobileDisabled == {"cursor", "particles", "tilt", "glow", "parallax"}

\* C12: in the optimized script, on a page whose viewport is at most 768
\* wide or that has touch support, the blocks of the custom cursor, the
\* particle canvas, the card tilt and glow and the scroll parallax never act
\* and none of their callbacks ever runs.
C12_MobileDisablesEffects ==
    (eScript = "optimized" /\ (~eWide \/ eTouch)) =>
        /\ eActive \cap MobileDisabled = {}
        /\ eRan \cap MobileDisabled = {}

\* C12 witness: a wide touch device without reduced motion, the script has
\* run and callbacks of two other effects have run.
C12_Witness ==
    /\ eScript = "optimized" /\ eWide /\ eTouch /\ ~eReduced
    /\ ePhase = "done"
    /\ "progress" \in eActive
    /\ Cardinality(eRan) = 2

\* The strip is off-screen, the observer callback has been invoked for every
\* change, and a frame has run since.
OffscreenSettled ==
    /\ fVariant = "optimized"
    /\ fPhase = "set up"
    /\ ~fActual
    /\ fQueue = <<>>
    /\ fRecent # <<>>
    /\ fRecent[Len(fRecent)] = "tick"

\* C13: in the optimized script, from the first frame after the strip stops
\* intersecting the viewport until it intersects again no tick stays
\* requested and the scroll offset does not change, and the observer
\* callback that resumes the auto-scroll leaves the offset as it was.
C13_PausedWhileOffscreen ==
    /\ [](OffscreenSettled => fTicks = 0)
    /\ [][OffscreenSettled => fScrollAmount' = fScrollAmount]_vars
    /\ [][fSeen' # fSeen => fScrollAmount' = fScrollAmount]_vars

C15_LoopsStopOrPause == \A l \in Loops : lQuiet[l] => ~lSched[l]

\* C17: for each of the five throttled handlers, whatever the number of
\* events between two frames, at most one frame callback is requested at
\* any time and the ticking flag is set exactly when one is.
C17_OneFramePending ==
    /\ hPending <= 1
    /\ hTicking <=> hPending = 1

\* C17 witness: two events arrived before the frame, one callback is
\* requested.
C17_Witness ==
    /\ hWhich # "none"
    /\ hBurst = 2
    /\ hTicking /\ hPending = 1

\* C18: for the card-glow and the spotlight handler, whenever a frame is
\* requested a frame callback eventually runs, and it applies the
\* coordinates of the latest mousemove so far, not those of the event that
\* requested it, to the card (if the card passes the viewport test then).
C18_LastMoveApplied ==
    (hWhich \in MouseHandlers /\ hPending > 0)
        ~> (hPending = 0 /\ (hFrameNear => hApplied = hEvent))

\* C18 witness: a mousemove found the frame requested and brought other
\* coordinates than the event before it; the frame callback applied them.
C18_Witness ==
    /\ hWhich \in MouseHandlers
    /\ hPending = 0 /\ hFrameLate /\ hFrameNear
    /\ hApplied = hEvent

\* The hrefs of local pages: they end with '.html' and start with neither
\* 'http' nor 'mailto'.
LocalPage(href) ==
    /\ href # <<>>
    /\ href[Len(href)] = ".html"
    /\ href[1] \notin {"http", "mailto"}

\* With reduced motion off, every click so far was on a link to a local
\* page, and there was one.
OnlyLocalClicks ==
    /\ ~nReduced
    /\ nClicked # <<>>
    /\ \A i \in 1..Len(nClicked) : LocalPage(nClicked[i])

\* C19: from a click that starts the page-transition fade until the page is
\* navigated away from, the body's opacity is '0', whatever the window's
\* load event and its frame callback do in between.
C19_FadeStaysTransparent ==
    (OnlyLocalClicks /\ nPhase = "run") => nOpacity = "0"

\* C20: with reduced motion off, a click on a link whose href ends with
\* '.html' and starts with neither 'http' nor 'mailto' has its default
\* cancelled and the page eventually navigates away; the page it navigates
\* to is the href of the first such link clicked.
C20_NavigatesToFirstClicked ==
    /\ [](OnlyLocalClicks => nPrevented = "yes")
    /\ [](OnlyLocalClicks /\ nPhase = "gone" => nNavTo = nClicked[1])
    /\ OnlyLocalClicks ~> (nPhase = "gone")


\* The path a request stands for: the empty path means index.html.
Requested == IF sRequest = <<>> THEN <<"index", ".html">> ELSE sRequest

\* C14: every request gets one response, which is closed: 404 with the body
\* '404 Not Found' exactly when the requested path is not a file under the
\* server root, otherwise the bytes of that file with the content type of
\* its extension, compared without regard to case, and
\* application/octet-stream for an extension that is not listed.
C14_ServesFileOr404 ==
    [][ sRequest' # NoRequest /\ sResponse' # sResponse =>
          /\ sResponse'.closed = 1
          /\ IF Requested' \in sFiles
             THEN /\ sResponse'.status = 200
                  /\ sResponse'.body = Requested'
                  /\ sResponse'.contentType = ContentType(Requested')
             ELSE /\ sResponse'.status = 404
                  /\ sResponse'.body = NotFoundBody ]_vars

\* s is an initial part of t.
IsPrefix(s, t) == Len(s) <= Len(t) /\ \A i \in 1..Len(s) : s[i] = t[i]

AnimatedEnd(attr, suffix) == TickText(duration, attr, suffix)

\* C22: the text set at once under reduced motion is the text the animated
\* counter ends on for the same data-count and data-suffix, for every
\* attribute value; and a finished animation shows that text.
C22_ReducedTextIsAnimatedEnd ==
    /\ stPhase = "set" => stText = AnimatedEnd(stAttr, stSuffix)
    /\ stPhase = "done" => stText = AnimatedEnd(stAttr, stSuffix)

\* The two texts agree where data-count is a plain decimal number without
\* leading zeros.
PlainNumbersAgree ==
    (stPhase = "set" /\ parseInt(stAttr) # NaN /\ NumberText(parseInt(stAttr)) = stAttr)
        => stText = AnimatedEnd(stAttr, stSuffix)

\* C23: for every element, 'is-visible', once on the element, stays on
\* it in every later step; an element without 'reveal-stagger' is no
\* longer observed once a callback had an intersecting entry of it, has no
\* entry queued after that, and at most one callback ever acts on it.
C23_RevealIsOneTime ==
    /\ [][rvPhase # "absent" =>
            \A el \in RevealEls : rvVisible[el] => rvVisible'[el]]_vars
    /\ [](rvPhase # "absent" =>
            \A el \in RevealEls :
               /\ rvVisible[el] <=> rvActed[el] >= 1
               /\ (~rvStagger[el] /\ rvActed[el] >= 1) =>
                     /\ ~rvObserved[el]
                     /\ rvActed[el] = 1
                     /\ \A i \in 1..Len(rvQueue) : rvQueue[i].target # el)

\* C23 witness: an element without 'reveal-stagger' was revealed and is
\* out of the viewport again.
C23_Witness ==
    /\ rvPhase = "run"
    /\ \E el \in RevealEls :
          /\ ~rvStagger[el]
          /\ rvVisible[el]
          /\ rvActed[el] = 1
          /\ ~rvObserved[el]
          /\ ~rvActual[el]
          /\ rvQueue = <<>>

\* The effect has ended: 'done' is on the element and no timeout is set.
TypewriterEnded == twDone = 1 /\ ~twTypeTimer /\ ~twDoneTimer

\* C24: whatever the script has written to the typewriter is a prefix of
\* its text.  Without reduced motion the lengths written are 0, 1, ..., in
\* order, one per run of type; no more than len + 1 texts are written and
\* len + 1 type timeouts and one 'done' timeout set; 'done' is added at
\* most once, and only after all len + 1 texts were written, by the
\* timeout set in the run of type after the last text.  With reduced
\* motion the script sets the full text and 'done' at once and sets no
\* timeout.  A page with a typewriter always reaches the end of the effect.
C24_TypewriterShowsPrefixes ==
    /\ [](/\ twShown # NotWritten => IsPrefix(twShown, twText)
          /\ twDone <= 1
          /\ ~twReduced =>
                /\ \A j \in 1..Len(twLengths) : twLengths[j] = j - 1
                /\ Len(twLengths) <= Len(twText) + 1
                /\ twLengths # <<>> => Len(twShown) = Len(twLengths) - 1
                /\ twTimers <= Len(twText) + 2
                /\ twRuns = twTimers
                /\ (twDoneTimer \/ twDone = 1) =>
                      /\ Len(twLengths) = Len(twText) + 1
                      /\ twShown = twText
                      /\ twRuns = Len(twText) + 2
                      /\ ~twTypeTimer
          /\ twReduced =>
                /\ twTimers = 0 /\ ~twTypeTimer /\ ~twDoneTimer /\ twRuns = 0
                /\ (twEl /\ twPhase = "run") => (twShown = twText /\ twDone = 1))
    /\ (twEl /\ twPhase = "page") ~> TypewriterEnded

\* C24 witness: without reduced motion a text of the greatest length was
\* typed out and 'done' added.
C24_Witness ==
    /\ ~twReduced
    /\ twEl
    /\ Len(twText) = MaxTypeLen
    /\ twShown = twText
    /\ TypewriterEnded

\* Once the element has shown its target, every later write shows the
\* target, and an element that started an animation is not observed.
NoRestartAfterTarget ==
    /\ [][anReached => anText' = anTarget]_vars
    /\ [](anStarts >= 1 => ~anObserved /\ anQueue = <<>>)

\* C25: an element starts its count-up animation at most once, so that at
\* most one tick loop runs for it, and after showing the target it never
\* shows another value.
C25_AnimationStartsOnce ==
    /\ [](anStarts <= 1 /\ anLoops <= 1)
    /\ [][anReached => anText' = anTarget]_vars

=============================================================================
